---- MODULE Spec2Model ----
(***************************************************************************)
(* Model of src/script.js: the sensor dashboard (DataDashboard) and its    *)
(* chart, the custom cursor (CustomCursor), the contact form with          *)
(* isValidEmail and the notifications, the mobile menu, the smooth-scroll  *)
(* listeners, the reveal animations, and the page-ready wiring.            *)
(*                                                                         *)
(* JavaScript strings are sequences of one-character strings, JavaScript   *)
(* values are tagged records, and the numbers stored in the histories are  *)
(* exact decimals (or NaN), so that toFixed, parseFloat and string         *)
(* concatenation are computed rather than assumed.                         *)
(***************************************************************************)
EXTENDS Integers, Sequences, FiniteSets, TLC

VARIABLES
    \* ---- page and environment of the dashboard
    dom,            \* which elements / libraries the page has
    phase,          \* "loading" until DOMContentLoaded has been handled
    clock,          \* number of 5-second timer periods since page load
    rng,            \* position of Math.random in its stream
    \* ---- DataDashboard
    dashboard,      \* TRUE once new DataDashboard() has run
    timerActive,    \* TRUE once setInterval has been registered
    data,           \* this.data: the four histories
    chart,          \* this.chart: "null" or "chart"
    chartSeries,    \* which arrays of this.data the chart's labels and
                    \* series are
    redraws,        \* number of chart.update('none') calls that returned
    readouts,       \* textContent of #current-temp/-humidity/-pressure
    awaitingFetch,  \* cycles suspended at `await fetch(...)`
    awaitingJson,   \* cycles suspended at `await response.json()`
    \* ---- observation of the dashboard (history variables)
    started,        \* fetchESP32Data calls so far
    completed,      \* fetch cycles whose promise has settled
    appended,       \* every reading appended, with the values pushed for it
    rejections,     \* fetch-cycle promises that rejected (unhandled)
    lastCycle,      \* what the most recently settled cycle did
    cyclesLeft,     \* fetch cycles the run may still start
    faultsLeft,     \* unusual environment events the run may still take
    \* ---- CustomCursor and its page
    cenv,           \* markers present, touch capabilities of the device
    cursorPhase,    \* "loading" until the cursor's DOMContentLoaded handler
    pointer,        \* coordinates of the latest mousemove event, if any
    cursor,         \* the CustomCursor object's fields
    cstyles,        \* inline styles and hover class of the two markers
    listeners,      \* event types the cursor has listeners for
    rafPending,     \* TRUE while a requestAnimationFrame callback is queued
    lastFrame,      \* what the latest call of animate() did (history)
    uncaught,       \* cursor handlers that raised an uncaught TypeError
    eventsLeft,     \* pointer events the run may still deliver
    \* ---- isValidEmail as a function
    emailArg,       \* the argument
    emailResult,    \* "unset", then "valid" or "invalid"
    \* ---- contact form and notifications
    form,           \* #contactForm: present, default and current field values
    formPhase,      \* "loading" until initContactForm has run
    submitListeners,\* submit listeners on the form
    notifications,  \* toasts in document.body, oldest first
    toastsShown,    \* every toast showNotification has inserted, in order
    toastsRemoved,  \* every toast removed, as it was when removed, in order
    lastSubmit,     \* what the latest submit event did (history)
    submitsLeft,    \* submit events the run may still deliver
    \* ---- generateMockData as a function
    mockRandoms,    \* the three values Math.random returns to it
    mockReading,    \* the reading returned, once it has been called
    \* ---- mobile menu
    menuEnv,        \* the page: which menu elements exist and where they are
    menuPhase,      \* "loading" until the page's DOMContentLoaded handler ran
    menuListeners,  \* whether initMobileMenu has registered its listeners
    menu,           \* which of the button and the panel has class 'active'
    menuErrors,     \* uncaught TypeErrors raised by the menu's listeners
    lastClick,      \* the last click: its target and the classes around it
    clicksLeft,     \* clicks the run may still deliver
    \* ---- reveal animations
    obsPhase,       \* "loading" until the page's DOMContentLoaded handler ran
    cards,          \* per card: inline opacity and animation, being observed
    inView,         \* the cards that intersect the observer's root now
    entryQueue,     \* entries the observer has queued for its next callback
    reported,       \* the cards a callback has reported intersecting
    revealSteps,    \* per card: the callbacks that styled it
    scrollsLeft,    \* viewport changes the run may still deliver
    \* ---- smooth scrolling
    scrollEnv,      \* the page: the ids it has, whether the anchors were
                    \* there when the script's top level ran
    scrollPhase,    \* "loading" until the page's DOMContentLoaded handler ran
    lastAnchorClick, \* the last click on an anchor: what each listener did
    anchorClicksLeft \* anchor clicks the run may still deliver

dashVars ==
    <<dom, phase, clock, rng, dashboard, timerActive, data, chart,
      chartSeries, redraws,
      readouts, awaitingFetch, awaitingJson, started, completed, appended,
      rejections, lastCycle, cyclesLeft, faultsLeft>>

cursorVars ==
    <<cenv, cursorPhase, pointer, cursor, cstyles, listeners, rafPending,
      lastFrame, uncaught, eventsLeft>>

emailVars == <<emailArg, emailResult>>

formVars ==
    <<form, formPhase, submitListeners, notifications, toastsShown,
      toastsRemoved, lastSubmit, submitsLeft>>

mockVars == <<mockRandoms, mockReading>>

menuVars ==
    <<menuEnv, menuPhase, menuListeners, menu, menuErrors, lastClick,
      clicksLeft>>

observerVars ==
    <<obsPhase, cards, inView, entryQueue, reported, revealSteps, scrollsLeft>>

scrollVars == <<scrollEnv, scrollPhase, lastAnchorClick, anchorClicksLeft>>

vars == <<dashVars, cursorVars, emailVars, formVars, mockVars, menuVars,
    observerVars, scrollVars>>

\* What each part of the page leaves alone.
besidesDashboard == <<cursorVars, emailVars, formVars, mockVars, menuVars,
    observerVars, scrollVars>>

besidesCursor == <<dashVars, emailVars, formVars, mockVars, menuVars,
    observerVars, scrollVars>>

besidesEmail == <<dashVars, cursorVars, formVars, mockVars, menuVars,
    observerVars, scrollVars>>

besidesForm == <<dashVars, cursorVars, emailVars, mockVars, menuVars,
    observerVars, scrollVars>>

besidesMock == <<dashVars, cursorVars, emailVars, formVars, menuVars,
    observerVars, scrollVars>>

besidesMenu == <<dashVars, cursorVars, emailVars, formVars, mockVars,
    observerVars, scrollVars>>

besidesObserver == <<dashVars, cursorVars, emailVars, formVars, mockVars,
    menuVars, scrollVars>>

besidesScroll == <<dashVars, cursorVars, emailVars, formVars, mockVars,
    menuVars, observerVars>>

(***************************************************************************)
(* Bounds of the exploration.                                              *)
(***************************************************************************)
\* A long run: enough cycles to overflow the histories, few unusual events.
LongCycles == 22
LongFaults == 1
\* A short run in which every cycle may take any path and cycles overlap.
ShortCycles == 2
ShortFaults == 5

(***************************************************************************)
(* Text and numbers.                                                       *)
(***************************************************************************)
Digits == <<"0", "1", "2", "3", "4", "5", "6", "7", "8", "9">>

DigitSet == {Digits[i] : i \in 1..10}

DigitValues == [c \in DigitSet |-> (CHOOSE i \in 1..10 : Digits[i] = c) - 1]

DigitVal(c) == DigitValues[c]

\* JavaScript values that occur in a reading.
Str(s) == [t |-> "string", s |-> s]

Undefined == [t |-> "undefined", s |-> <<>>]

\* JsToString, as applied by `+ '°C'` and by parseFloat.
JsToString(v) ==
    IF v.t = "undefined"
    THEN <<"u", "n", "d", "e", "f", "i", "n", "e", "d">>
    ELSE v.s

\* Decimal digits of a natural number, most significant first.
RECURSIVE NatText(_)
NatText(n) ==
    IF n < 10 THEN <<Digits[n + 1]>>
    ELSE NatText(n \div 10) \o <<Digits[(n % 10) + 1]>>

\* (num/den).toFixed(2) for num/den >= 0: the nearest multiple of 0.01, the
\* larger one on a tie, written with exactly two decimals.
ToFixed2(num, den) ==
    LET n == (200 * num + den) \div (2 * den)
    IN  NatText(n \div 100) \o <<".">>
            \o <<Digits[((n \div 10) % 10) + 1], Digits[(n % 10) + 1]>>

\* A JavaScript number: NaN, or the exact decimal m / 10^e in lowest form.
NaN == [t |-> "number", nan |-> TRUE, m |-> 0, e |-> 0]

RECURSIVE Dec(_, _)
Dec(m, e) ==
    IF e > 0 /\ m % 10 = 0 THEN Dec(m \div 10, e - 1)
    ELSE [t |-> "number", nan |-> FALSE, m |-> m, e |-> e]

\* The first position at or after i that holds no blank.
RECURSIVE SkipSpaces(_, _)
SkipSpaces(s, i) ==
    IF i <= Len(s) /\ s[i] = " " THEN SkipSpaces(s, i + 1) ELSE i

\* The first position at or after i that holds no digit.
RECURSIVE SkipDigits(_, _)
SkipDigits(s, i) ==
    IF i <= Len(s) /\ s[i] \in DigitSet THEN SkipDigits(s, i + 1) ELSE i

\* The digits s[i], ..., s[j - 1] written after the number acc.
RECURSIVE DigitsValue(_, _, _, _)
DigitsValue(s, i, j, acc) ==
    IF i >= j THEN acc ELSE DigitsValue(s, i + 1, j, 10 * acc + DigitVal(s[i]))

\* parseFloat: leading blanks are skipped, then the longest prefix of the form
\* [+-] digits [. digits] is the value; NaN when that prefix has no digit.
\* (Exponents and "Infinity" are left out: no sample reading contains them.)
ParseFloat(v) ==
    LET s      == JsToString(v)
        start  == SkipSpaces(s, 1)
        signed == start <= Len(s) /\ s[start] \in {"-", "+"}
        neg    == signed /\ s[start] = "-"
        i0     == IF signed THEN start + 1 ELSE start
        i1     == SkipDigits(s, i0)
        point  == i1 <= Len(s) /\ s[i1] = "."
        j0     == i1 + 1
        j1     == IF point THEN SkipDigits(s, j0) ELSE j0
        mag    == DigitsValue(s, j0, j1, DigitsValue(s, i0, i1, 0))
    IN  IF i1 = i0 /\ j1 = j0 THEN NaN
        ELSE Dec(IF neg THEN 0 - mag ELSE mag, j1 - j0)

Pad2(n) == <<Digits[(n \div 10) + 1], Digits[(n % 10) + 1]>>

\* Time of day at page load, in seconds: shortly before midnight, so that the
\* displayed time wraps during a run.
PageLoadSeconds == (23 * 3600) + (59 * 60) + 10

TimerIntervalMs == 5000

\* new Date().toLocaleTimeString() (24-hour form) at the given clock.
LocaleTimeString(clk) ==
    LET sec == (PageLoadSeconds + clk * (TimerIntervalMs \div 1000)) % 86400
    IN  Pad2(sec \div 3600) \o <<":">> \o Pad2((sec \div 60) % 60)
            \o <<":">> \o Pad2(sec % 60)

(***************************************************************************)
(* Math.random: a fixed stream of values k / RandomScale in [0, 1), read   *)
(* in order and again from its start when it runs out.  It holds both ends *)
(* of the range, a midpoint, and a value that toFixed(2) rounds up.        *)
(***************************************************************************)
RandomScale == 10000

RandomStream == <<0, 9999, 5000, 9995, 1234, 4, 7500>>

MathRandom(pos) == RandomStream[pos]

NextRng(pos) == (pos % Len(RandomStream)) + 1

(***************************************************************************)
(* DataDashboard.                                                          *)
(***************************************************************************)
HistoryCap == 20

Reading(temp, humid, press, stamp) ==
    [t |-> "object", temperature |-> temp, humidity |-> humid,
     pressure |-> press, timestamp |-> stamp]

\* The value `null`, which response.json() yields for the body "null".
NullBody ==
    [t |-> "null", temperature |-> Undefined, humidity |-> Undefined,
     pressure |-> Undefined, timestamp |-> Undefined]

\* A variant of MockReading whose pressure spans ten units.
MockReadingWidePressure(r1, r2, r3, clk) ==
    Reading(Str(ToFixed2(20 * RandomScale + r1 * 10, RandomScale)),
            Str(ToFixed2(40 * RandomScale + r2 * 30, RandomScale)),
            Str(ToFixed2(1013 * RandomScale + r3 * 10, RandomScale)),
            Str(LocaleTimeString(clk)))

\* The object literal of lines 159-164, for the values r1, r2, r3 (in units
\* of 1 / RandomScale) that the three calls of Math.random return.
MockReading(r1, r2, r3, clk) ==
    Reading(Str(ToFixed2(20 * RandomScale + r1 * 10, RandomScale)),
            Str(ToFixed2(40 * RandomScale + r2 * 30, RandomScale)),
            Str(ToFixed2(1013 * RandomScale + r3 * 5, RandomScale)),
            Str(LocaleTimeString(clk)))

\* generateMockData, reading Math.random three times from position pos.
GenerateMockData(pos, clk) ==
    [reading |-> MockReading(MathRandom(pos), MathRandom(NextRng(pos)),
                             MathRandom(NextRng(NextRng(pos))), clk),
     rng |-> NextRng(NextRng(NextRng(pos)))]

\* Values of Math.random for generateMockData on its own: an even grid of
\* MockSteps values, both ends of [0, 1) and values next to a rounding tie.
MockSteps == 4

RandomSamples ==
    {k * (RandomScale \div MockSteps) : k \in 0..(MockSteps - 1)}
        \cup {0, 4, 5, 9995, 9999}

NoReading ==
    [t |-> "none", temperature |-> Undefined, humidity |-> Undefined,
     pressure |-> Undefined, timestamp |-> Undefined]

\* generateMockData is called.
CallGenerateMockData ==
    /\ mockReading = NoReading
    /\ mockReading' = MockReading(mockRandoms[1], mockRandoms[2],
                                  mockRandoms[3], 0)
    /\ UNCHANGED mockRandoms
    /\ UNCHANGED besidesMock

MockStart ==
    /\ mockRandoms \in RandomSamples \X RandomSamples \X RandomSamples
    /\ mockReading = NoReading

MockQuiet ==
    /\ mockRandoms = <<0, 0, 0>>
    /\ mockReading = NoReading

TempSuffix == <<"°", "C">>

HumidSuffix == <<"%">>

PressSuffix == <<" ", "h", "P", "a">>

\* A variant of UpdateReadouts that leaves the unit off the temperature.
UpdateReadoutsNoUnit(d, ro, r) ==
    [temp  |-> IF d.tempEl THEN JsToString(r.temperature) ELSE ro.temp,
     humid |-> IF d.humidEl THEN JsToString(r.humidity) \o HumidSuffix
               ELSE ro.humid,
     press |-> IF d.pressEl THEN JsToString(r.pressure) \o PressSuffix
               ELSE ro.press]

\* Lines 172-178: each readout that exists shows the reading and its unit.
UpdateReadouts(d, ro, r) ==
    [temp  |-> IF d.tempEl THEN JsToString(r.temperature) \o TempSuffix
               ELSE ro.temp,
     humid |-> IF d.humidEl THEN JsToString(r.humidity) \o HumidSuffix
               ELSE ro.humid,
     press |-> IF d.pressEl THEN JsToString(r.pressure) \o PressSuffix
               ELSE ro.press]

\* The four values that lines 181-184 push for the reading r.
Pushed(r) ==
    [temperature |-> ParseFloat(r.temperature),
     humidity    |-> ParseFloat(r.humidity),
     pressure    |-> ParseFloat(r.pressure),
     timestamp   |-> r.timestamp]

\* A variant of PushReading that leaves the timestamps alone.
PushReadingNoTimestamp(h, p) ==
    [temperature |-> Append(h.temperature, p.temperature),
     humidity    |-> Append(h.humidity, p.humidity),
     pressure    |-> Append(h.pressure, p.pressure),
     timestamps  |-> h.timestamps]

\* Lines 181-184: push the values p onto the four histories.
PushReading(h, p) ==
    [temperature |-> Append(h.temperature, p.temperature),
     humidity    |-> Append(h.humidity, p.humidity),
     pressure    |-> Append(h.pressure, p.pressure),
     timestamps  |-> Append(h.timestamps, p.timestamp)]

\* A variant of TrimHistory that lets one entry too many stand.
TrimHistoryLate(h) ==
    IF Len(h.temperature) > HistoryCap + 1
    THEN [temperature |-> Tail(h.temperature),
          humidity    |-> Tail(h.humidity),
          pressure    |-> Tail(h.pressure),
          timestamps  |-> Tail(h.timestamps)]
    ELSE h

\* A variant of TrimHistory that drops the newest entry (pop for shift).
TrimHistoryNewest(h) ==
    LET front(q) == SubSeq(q, 1, Len(q) - 1)
    IN  IF Len(h.temperature) > HistoryCap
        THEN [temperature |-> front(h.temperature),
              humidity    |-> front(h.humidity),
              pressure    |-> front(h.pressure),
              timestamps  |-> front(h.timestamps)]
        ELSE h

\* Lines 187-192: keep only the last 20 data points.
TrimHistory(h) ==
    IF Len(h.temperature) > HistoryCap
    THEN [temperature |-> Tail(h.temperature),
          humidity    |-> Tail(h.humidity),
          pressure    |-> Tail(h.pressure),
          timestamps  |-> Tail(h.timestamps)]
    ELSE h

\* The part of the dashboard that one fetch cycle reads and writes, with the
\* chart ch it finds in this.chart and the time of the step.
\* calls: the updateDashboard calls of the current step, for observation.
\* The chart's labels and its two series, each the array of this.data of
\* that name (the array itself, not a copy), or none without a chart.
Series(labels, temperature, humidity) ==
    [labels |-> labels, temperature |-> temperature, humidity |-> humidity]

NoSeries == Series("none", "none", "none")

\* new Chart(ctx, {data: {labels: ..., datasets: [...]}}), lines 207-240.
InitChartSeries == Series("timestamps", "temperature", "humidity")

\* The series of chart ch at the start of a step: those initChart has just
\* given it, or those it has had.
SeriesOf(ch) ==
    IF ch = "null" THEN NoSeries
    ELSE IF chart = "null" THEN InitChartSeries
    ELSE chartSeries

DashState(ch, now) ==
    [data |-> data, readouts |-> readouts, redraws |-> redraws,
     appended |-> appended, rng |-> rng, chart |-> ch, now |-> now,
     series |-> SeriesOf(ch), calls |-> <<>>]

\* The chart.update calls of one updateDashboard call that reaches line
\* 195, by their mode argument.
ChartUpdates(ch) == IF ch = "null" THEN <<>> ELSE <<"none">>

\* A variant of UpdateChart that gives the first series the humidity.
UpdateChartWrongSeries(st, chartThrows) ==
    IF st.chart = "null" THEN st
    ELSE LET bound == [st EXCEPT
                         !.series = Series("timestamps", "humidity",
                                           "humidity")]
         IN  IF chartThrows THEN bound
             ELSE [bound EXCEPT !.redraws = @ + 1]

\* updateChart, lines 292-299: the labels and series it assigns are
\* this.data's own arrays; the redraw is counted when chart.update returns.
UpdateChart(st, chartThrows) ==
    IF st.chart = "null" THEN st
    ELSE LET bound == [st EXCEPT
                         !.series = Series("timestamps", "temperature",
                                           "humidity")]
         IN  IF chartThrows THEN bound
             ELSE [bound EXCEPT !.redraws = @ + 1]

\* updateDashboard(r), lines 170-198.  chartThrows: whether chart.update
\* raises in this call.  Reading a property of null raises before anything
\* has been changed.
UpdateDashboard(st, r, origin, chartThrows) ==
    IF r.t = "null"
    THEN [st EXCEPT !.calls = Append(@, [origin |-> origin, reading |-> r,
                                          threw |-> TRUE, inChart |-> FALSE,
                                          updates |-> <<>>])]
    ELSE LET threw == st.chart # "null" /\ chartThrows
             p  == Pushed(r)
             s1 == [st EXCEPT
                      !.readouts = UpdateReadouts(dom, st.readouts, r),
                      !.data     = TrimHistory(PushReading(st.data, p)),
                      !.appended = Append(@, [reading |-> r, pushed |-> p]),
                      !.calls    = Append(@, [origin |-> origin,
                                              reading |-> r, threw |-> threw,
                                              inChart |-> threw,
                                              updates |->
                                                  ChartUpdates(st.chart)])]
         IN  UpdateChart(s1, chartThrows)

LastThrew(st) == st.calls # <<>> /\ st.calls[Len(st.calls)].threw

\* updateDashboard(this.generateMockData()), lines 146 and 150.
UpdateWithMock(st, chartThrows) ==
    LET g == GenerateMockData(st.rng, st.now)
    IN  UpdateDashboard([st EXCEPT !.rng = g.rng], g.reading, "mock",
                        chartThrows)

\* The catch block, lines 148-151, entered when the try block raised.
CatchBlock(st, chartThrows) == UpdateWithMock(st, chartThrows)

\* The try block's call to updateDashboard has been made; if it raised, the
\* catch block runs.  t2: whether chart.update raises in the catch block.
TryThenCatch(stAfterTry, t2) ==
    IF LastThrew(stAfterTry) THEN CatchBlock(stAfterTry, t2) ELSE stAfterTry

ChartThrowCount(st) ==
    Cardinality({i \in 1..Len(st.calls) : st.calls[i].inChart})

BoolCount(t1, t2) == (IF t1 THEN 1 ELSE 0) + (IF t2 THEN 1 ELSE 0)

\* The record kept of a settled cycle.
CycleRecord(path, st) ==
    [path |-> path, calls |-> st.calls, rejected |-> LastThrew(st)]

NoCycle == [path |-> "none", calls |-> <<>>, rejected |-> FALSE]

\* The cycle has run to its end in state st: its effects and its promise's
\* outcome.  The chart.update failures asked for must be the ones that
\* happened.
SettleCycleIn(path, st, t1, t2, cost) ==
    /\ cost + BoolCount(t1, t2) <= faultsLeft
    /\ BoolCount(t1, t2) = ChartThrowCount(st)
    /\ data' = st.data
    /\ readouts' = st.readouts
    /\ redraws' = st.redraws
    /\ chartSeries' = st.series
    /\ appended' = st.appended
    /\ rng' = st.rng
    /\ completed' = completed + 1
    /\ rejections' = rejections + (IF LastThrew(st) THEN 1 ELSE 0)
    /\ lastCycle' = CycleRecord(path, st)
    /\ faultsLeft' = faultsLeft - (cost + BoolCount(t1, t2))

\* The cycle ends in state end without having entered the try block's
\* updateDashboard (the catch block has already run if it was to).
SettleCycle(path, end, t1, t2, cost) ==
    /\ cost + BoolCount(t1, t2) <= faultsLeft
    /\ \E st \in {end} : SettleCycleIn(path, st, t1, t2, cost)

\* The try block has called updateDashboard, leaving state afterTry; the
\* catch block runs if that call raised, and the cycle ends.
FinishCycle(path, afterTry, t1, t2, cost) ==
    /\ cost + BoolCount(t1, t2) <= faultsLeft
    /\ \E s1 \in {afterTry} :
           \E s2 \in {TryThenCatch(s1, t2)} :
               SettleCycleIn(path, s2, t1, t2, cost)

\* fetchESP32Data up to its first suspension, lines 131-137, with `waiting`
\* cycles already at that point.  If the call fetch(...) itself raises, the
\* catch block runs at once; otherwise the cycle waits for the network.
BeginFetch(ch, waiting, fetchThrows, t2, overlapCost) ==
    /\ started' = started + 1
    /\ cyclesLeft' = cyclesLeft - 1
    /\ IF fetchThrows
       THEN /\ SettleCycle("fetchThrew", CatchBlock(DashState(ch, clock'), t2),
                           FALSE, t2, 1 + overlapCost)
            /\ awaitingFetch' = waiting
       ELSE /\ ~t2
            /\ awaitingFetch' = waiting + 1
            /\ faultsLeft' = faultsLeft - overlapCost
            /\ chartSeries' = SeriesOf(ch)
            /\ UNCHANGED <<data, readouts, redraws, appended, rng, completed,
                           rejections, lastCycle>>

\* The page's DOMContentLoaded handler, lines 303-307, with the constructor
\* (102-112) and init (114-125): the chart is built if the library and the
\* surface are there, one fetch cycle is started, and the timer is set.
DashboardReady ==
    /\ phase = "loading"
    /\ phase' = "ready"
    /\ clock' = clock
    /\ IF dom.chartEl \/ dom.tempEl
       THEN /\ dashboard' = TRUE
            /\ chart' = IF dom.chartLib /\ dom.chartEl THEN "chart" ELSE "null"
            /\ \E fetchThrows, t2 \in BOOLEAN :
                   BeginFetch(chart', 0, fetchThrows, t2, 0)
            /\ timerActive' = TRUE
       ELSE UNCHANGED <<dashboard, chart, chartSeries, timerActive, started,
                        cyclesLeft,
                        awaitingFetch, faultsLeft, data, readouts, redraws,
                        appended, rng, completed, rejections, lastCycle>>
    /\ UNCHANGED <<dom, awaitingJson>>
    /\ UNCHANGED besidesDashboard

\* A variant of TimerTick that starts no cycle while one is in flight.
TimerTickSkipsWhenBusy ==
    /\ timerActive
    /\ cyclesLeft > 0
    /\ awaitingFetch + awaitingJson > 0 => faultsLeft > 0
    /\ clock' = clock + 1
    /\ IF awaitingFetch + awaitingJson > 0
       THEN UNCHANGED <<started, cyclesLeft, awaitingFetch, faultsLeft, data,
                        chartSeries,
                        readouts, redraws, appended, rng, completed,
                        rejections, lastCycle>>
       ELSE \E fetchThrows, t2 \in BOOLEAN :
                BeginFetch(chart, awaitingFetch, fetchThrows, t2, 0)
    /\ UNCHANGED <<dom, phase, dashboard, timerActive, chart, awaitingJson>>
    /\ UNCHANGED besidesDashboard

\* A tick of setInterval(() => this.fetchESP32Data(), 5000), line 124.  The
\* tick does not look at earlier cycles.  Time: an answer still outstanding
\* when the period ends is a late answer, one of the run's unusual events;
\* when the run has none left, answers arrive within the period, so the
\* period does not end while one is outstanding.
TimerTick ==
    /\ timerActive
    /\ cyclesLeft > 0
    /\ awaitingFetch + awaitingJson > 0 => faultsLeft > 0
    /\ clock' = clock + 1
    /\ \E fetchThrows, t2 \in BOOLEAN :
           BeginFetch(chart, awaitingFetch, fetchThrows, t2,
                      IF awaitingFetch + awaitingJson > 0 THEN 1 ELSE 0)
    /\ UNCHANGED <<dom, phase, dashboard, timerActive, chart, awaitingJson>>
    /\ UNCHANGED besidesDashboard

\* `await fetch(...)` ends in a rejection: the .catch handler (lines
\* 137-140) makes the awaited value a mock reading, whose `ok` is undefined,
\* so line 146 generates a second mock reading and shows that one.
FetchRejected ==
    /\ awaitingFetch > 0
    /\ awaitingFetch' = awaitingFetch - 1
    /\ \E t1, t2 \in BOOLEAN :
           LET discarded == GenerateMockData(rng, clock)
               st0 == [DashState(chart, clock) EXCEPT !.rng = discarded.rng]
           IN  FinishCycle("rejected", UpdateWithMock(st0, t1), t1, t2, 0)
    /\ UNCHANGED <<dom, phase, clock, dashboard, timerActive, chart,
                   awaitingJson, started, cyclesLeft>>
    /\ UNCHANGED besidesDashboard

\* `await fetch(...)` yields a response whose ok is false, lines 145-147.
FetchHttpError ==
    /\ awaitingFetch > 0
    /\ awaitingFetch' = awaitingFetch - 1
    /\ \E t1, t2 \in BOOLEAN :
           FinishCycle("httpError",
                       UpdateWithMock(DashState(chart, clock), t1), t1, t2, 1)
    /\ UNCHANGED <<dom, phase, clock, dashboard, timerActive, chart,
                   awaitingJson, started, cyclesLeft>>
    /\ UNCHANGED besidesDashboard

\* A variant of FetchOk in which the cycle, past the network call, is neither
\* waiting at line 143 nor settled.
FetchOkNotSuspended ==
    /\ awaitingFetch > 0
    /\ faultsLeft > 0
    /\ awaitingFetch' = awaitingFetch - 1
    /\ faultsLeft' = faultsLeft - 1
    /\ UNCHANGED <<dom, phase, clock, rng, dashboard, timerActive, data, chart,
                   chartSeries,
                   redraws, readouts, started, completed, appended,
                   rejections, lastCycle, cyclesLeft, awaitingJson>>
    /\ UNCHANGED besidesDashboard

\* `await fetch(...)` yields a response whose ok is true: the cycle goes on
\* to `await response.json()`, line 143, and is suspended again.
FetchOk ==
    /\ awaitingFetch > 0
    /\ faultsLeft > 0
    /\ awaitingFetch' = awaitingFetch - 1
    /\ awaitingJson' = awaitingJson + 1
    /\ faultsLeft' = faultsLeft - 1
    /\ UNCHANGED <<dom, phase, clock, rng, dashboard, timerActive, data, chart,
                   chartSeries,
                   redraws, readouts, started, completed, appended,
                   rejections, lastCycle, cyclesLeft>>
    /\ UNCHANGED besidesDashboard

\* Bodies the endpoint may send, as response.json() parses them.
GoodBody ==
    Reading(Str(<<"2", "2", ".", "5", "0">>), Str(<<"5", "5", ".", "0", "0">>),
            Str(<<"1", "0", "1", "5", ".", "2", "5">>),
            Str(<<"1", "0", ":", "0", "0">>))

JunkBody ==
    Reading(Str(<<" ", "-", "3", ".", "7", "0", "x">>), Str(<<"n", "/", "a">>),
            Undefined, Undefined)

Bodies == {GoodBody, JunkBody, NullBody}

\* `await response.json()` yields the parsed body, lines 143-144.
JsonResolved ==
    /\ awaitingJson > 0
    /\ awaitingJson' = awaitingJson - 1
    /\ \E body \in Bodies, t1, t2 \in BOOLEAN :
           FinishCycle("json",
                       UpdateDashboard(DashState(chart, clock), body, "real",
                                       t1),
                       t1, t2, 0)
    /\ UNCHANGED <<dom, phase, clock, dashboard, timerActive, chart,
                   awaitingFetch, started, cyclesLeft>>
    /\ UNCHANGED besidesDashboard

\* `await response.json()` rejects (the body does not parse): the catch
\* block runs, lines 148-151.
JsonFailed ==
    /\ awaitingJson > 0
    /\ awaitingJson' = awaitingJson - 1
    /\ \E t2 \in BOOLEAN :
           SettleCycle("parseFailed", CatchBlock(DashState(chart, clock), t2),
                       FALSE, t2, 0)
    /\ UNCHANGED <<dom, phase, clock, dashboard, timerActive, chart,
                   awaitingFetch, started, cyclesLeft>>
    /\ UNCHANGED besidesDashboard

(***************************************************************************)
(* The dashboard page.                                                     *)
(***************************************************************************)
Dom(lib, chartEl, tempEl, humidEl, pressEl) ==
    [chartLib |-> lib, chartEl |-> chartEl, tempEl |-> tempEl,
     humidEl |-> humidEl, pressEl |-> pressEl]

\* Pages: the full data page; readouts without a chart surface; a chart
\* surface without the library or readouts; a chart alone; a page that is
\* not a data page.
DomConfigs ==
    { Dom(TRUE, TRUE, TRUE, TRUE, TRUE),
      Dom(TRUE, FALSE, TRUE, FALSE, TRUE),
      Dom(FALSE, TRUE, FALSE, FALSE, FALSE),
      Dom(TRUE, TRUE, FALSE, TRUE, FALSE),
      Dom(TRUE, FALSE, FALSE, TRUE, TRUE) }

FullPage == Dom(TRUE, TRUE, TRUE, TRUE, TRUE)

\* The long run is taken on the full data page, the short one on every page.
Regimes ==
    { [cycles |-> LongCycles, faults |-> LongFaults, pages |-> {FullPage}],
      [cycles |-> ShortCycles, faults |-> ShortFaults, pages |-> DomConfigs] }

\* What the readout elements show before the first update.
Placeholder == <<"-", "-">>

EmptyData ==
    [temperature |-> <<>>, humidity |-> <<>>, pressure |-> <<>>,
     timestamps |-> <<>>]

\* The dashboard before its DOMContentLoaded handler has run.
DashboardIdle ==
    /\ rng = 1
    /\ phase = "loading"
    /\ clock = 0
    /\ dashboard = FALSE
    /\ timerActive = FALSE
    /\ data = EmptyData
    /\ chart = "null"
    /\ chartSeries = NoSeries
    /\ redraws = 0
    /\ readouts = [temp |-> Placeholder, humid |-> Placeholder,
                   press |-> Placeholder]
    /\ awaitingFetch = 0
    /\ awaitingJson = 0
    /\ started = 0
    /\ completed = 0
    /\ appended = <<>>
    /\ rejections = 0
    /\ lastCycle = NoCycle

DashboardStart ==
    /\ \E regime \in Regimes :
           /\ dom \in regime.pages
           /\ cyclesLeft = regime.cycles
           /\ faultsLeft = regime.faults
    /\ DashboardIdle

\* A page that is not a data page, left alone.
DashboardQuiet ==
    /\ dom = Dom(TRUE, FALSE, FALSE, TRUE, TRUE)
    /\ cyclesLeft = 0
    /\ faultsLeft = 0
    /\ DashboardIdle

(***************************************************************************)
(* Floating-point numbers.  The cursor's coordinates are IEEE binary       *)
(* numbers; here they have MantissaBits significant bits instead of 53 and *)
(* the smallest positive one is 2^-QuantumBits.  A number is written as    *)
(* the integer count of such quanta; every operation rounds its exact      *)
(* result to the nearest representable number, ties to the even mantissa.  *)
(***************************************************************************)
MantissaBits == 5

QuantumBits == MantissaBits + 3

RECURSIVE Pow2(_)
Pow2(k) == IF k = 0 THEN 1 ELSE 2 * Pow2(k - 1)

\* The number 1.
One == Pow2(QuantumBits)

Abs(n) == IF n < 0 THEN 0 - n ELSE n

Sign(n) == IF n < 0 THEN 0 - 1 ELSE IF n > 0 THEN 1 ELSE 0

\* The binary exponent k of the spacing 2^k (in quanta) between the
\* representable numbers around a / den quanta, searched upward from k.
RECURSIVE SpacingExp(_, _, _)
SpacingExp(a, den, k) ==
    IF a < den * Pow2(MantissaBits + k) THEN k ELSE SpacingExp(a, den, k + 1)

\* The representable number nearest to num / den quanta (den > 0).
RoundToFloat(num, den) ==
    LET a    == Abs(num)
        unit == den * Pow2(SpacingExp(a, den, 0))
        q    == a \div unit
        r    == a % unit
        up   == 2 * r > unit \/ (2 * r = unit /\ q % 2 = 1)
        mag  == (IF up THEN q + 1 ELSE q) * (unit \div den)
    IN  IF num < 0 THEN 0 - mag ELSE mag

FloatAdd(x, y) == RoundToFloat(x + y, 1)

FloatSub(x, y) == RoundToFloat(x - y, 1)

FloatMul(x, y) == RoundToFloat(x * y, One)

\* An integer, as clientX and clientY are.
FromInt(c) == RoundToFloat(c * One, 1)

\* The literal 0.12 of line 16.
EaseAmount == RoundToFloat(12 * One, 100)

(***************************************************************************)
(* CustomCursor.                                                           *)
(***************************************************************************)
Num(n) == [t |-> "number", v |-> n]

\* v > 0 for a JavaScript value v: undefined > 0 is false.
GreaterThanZero(v) == v.t = "number" /\ v.v > 0

\* A variant of IsTouchDevice that does not ask the media query.
IsTouchDeviceByPointsOnly(env) ==
    \/ GreaterThanZero(env.maxTouchPoints)
    \/ GreaterThanZero(env.msMaxTouchPoints)

\* isTouchDevice, lines 33-39.
IsTouchDevice(env) ==
    \/ GreaterThanZero(env.maxTouchPoints)
    \/ GreaterThanZero(env.msMaxTouchPoints)
    \/ env.hoverNone

\* A style length `n + 'px'`; the text is determined by the number n.
Px(n) == [set |-> TRUE, px |-> n]

\* A style property that has not been assigned.
Unset == [set |-> FALSE, px |-> 0]

InitialStyles ==
    [innerLeft |-> Unset, innerTop |-> Unset, innerOpacity |-> "",
     outerLeft |-> Unset, outerTop |-> Unset, outerOpacity |-> "",
     hoverClass |-> FALSE]

\* Before `new CustomCursor()`.
NoCursor ==
    [constructed |-> FALSE, innerX |-> 0, innerY |-> 0, outerX |-> 0,
     outerY |-> 0, isHovering |-> FALSE, easeAmount |-> 0]

\* The fields set by the constructor, lines 6-16.
NewCursor ==
    [constructed |-> TRUE, innerX |-> 0, innerY |-> 0, outerX |-> 0,
     outerY |-> 0, isHovering |-> FALSE, easeAmount |-> EaseAmount]

\* A handler's running state: the object, the styles, whether it has raised
\* (a property of null was read) and whether it has requested a frame.
Running(c, st) == [cursor |-> c, styles |-> st, threw |-> FALSE, raf |-> FALSE]

Raise(run) == [run EXCEPT !.threw = TRUE]

\* onMouseMove, lines 41-47.
OnMouseMove(run, env, e) ==
    LET c == [run.cursor EXCEPT !.innerX = FromInt(e[1]),
                                !.innerY = FromInt(e[2])]
        r1 == [run EXCEPT !.cursor = c]
    IN  IF ~env.innerEl THEN Raise(r1)
        ELSE [r1 EXCEPT !.styles.innerLeft = Px(c.innerX),
                        !.styles.innerTop = Px(c.innerY)]

\* onMouseEnter, lines 49-52.
OnMouseEnter(run, env) ==
    IF ~env.innerEl THEN Raise(run)
    ELSE LET r1 == [run EXCEPT !.styles.innerOpacity = "1"]
         IN  IF ~env.outerEl THEN Raise(r1)
             ELSE [r1 EXCEPT !.styles.outerOpacity = "0.6"]

\* onMouseLeave, lines 54-57.
OnMouseLeave(run, env) ==
    IF ~env.innerEl THEN Raise(run)
    ELSE LET r1 == [run EXCEPT !.styles.innerOpacity = "0"]
         IN  IF ~env.outerEl THEN Raise(r1)
             ELSE [r1 EXCEPT !.styles.outerOpacity = "0"]

\* onElementHover, lines 70-73.
OnElementHover(run, env) ==
    LET r1 == [run EXCEPT !.cursor.isHovering = TRUE]
    IN  IF ~env.outerEl THEN Raise(r1)
        ELSE [r1 EXCEPT !.styles.hoverClass = TRUE]

\* onElementLeave, lines 75-78.
OnElementLeave(run, env) ==
    LET r1 == [run EXCEPT !.cursor.isHovering = FALSE]
    IN  IF ~env.outerEl THEN Raise(r1)
        ELSE [r1 EXCEPT !.styles.hoverClass = FALSE]

\* A variant of EaseStep that goes the whole way at once.
EaseStepWhole(inner, outer, ease) == FloatAdd(outer, FloatSub(inner, outer))

\* outer += (inner - outer) * easeAmount, lines 82-83.
EaseStep(inner, outer, ease) ==
    FloatAdd(outer, FloatMul(FloatSub(inner, outer), ease))

\* animate, lines 80-89.
Animate(run, env) ==
    LET c0 == run.cursor
        c  == [c0 EXCEPT
                 !.outerX = EaseStep(c0.innerX, c0.outerX, c0.easeAmount),
                 !.outerY = EaseStep(c0.innerY, c0.outerY, c0.easeAmount)]
        r1 == [run EXCEPT !.cursor = c]
    IN  IF ~env.outerEl THEN Raise(r1)
        ELSE [r1 EXCEPT !.styles.outerLeft = Px(c.outerX),
                        !.styles.outerTop = Px(c.outerY),
                        !.raf = TRUE]

NoFrame ==
    [ran |-> FALSE, inner |-> <<0, 0>>, before |-> <<0, 0>>,
     after |-> <<0, 0>>]

\* The record kept of a call of animate().
FrameRecord(before, after) ==
    [ran |-> TRUE, inner |-> <<before.innerX, before.innerY>>,
     before |-> <<before.outerX, before.outerY>>,
     after |-> <<after.outerX, after.outerY>>]

AllListeners == {"mousemove", "mouseenter", "mouseleave", "hover"}

\* The handler has ended in state run.
CursorHandled(run, name) ==
    /\ cursor' = run.cursor
    /\ cstyles' = run.styles
    /\ uncaught' = IF run.threw THEN uncaught \cup {name} ELSE uncaught

\* The cursor's DOMContentLoaded handler, lines 93-95: the constructor
\* (6-19) and init (21-31).  On a touch device init returns at once; else it
\* registers the listeners and calls animate().
CursorReady ==
    /\ cursorPhase = "loading"
    /\ cursorPhase' = "ready"
    /\ IF IsTouchDevice(cenv)
       THEN /\ cursor' = NewCursor
            /\ UNCHANGED <<cstyles, listeners, rafPending, lastFrame, uncaught>>
       ELSE /\ listeners' = AllListeners
            /\ \E run \in {Animate(Running(NewCursor, cstyles), cenv)} :
                   /\ CursorHandled(run, "animate")
                   /\ rafPending' = run.raf
                   /\ lastFrame' = FrameRecord(NewCursor, run.cursor)
    /\ UNCHANGED <<cenv, pointer, eventsLeft>>
    /\ UNCHANGED besidesCursor

\* Where the pointer may go.
PointerTargets == {<<0, 6>>, <<6, 1>>}

\* The pointer moves; the mousemove listener, if there is one, runs.
MouseMove ==
    /\ eventsLeft > 0
    /\ eventsLeft' = eventsLeft - 1
    /\ \E e \in PointerTargets :
           /\ pointer' = [known |-> TRUE, at |-> e]
           /\ IF "mousemove" \in listeners
              THEN CursorHandled(OnMouseMove(Running(cursor, cstyles), cenv, e),
                                 "onMouseMove")
              ELSE UNCHANGED <<cursor, cstyles, uncaught>>
    /\ UNCHANGED <<cenv, cursorPhase, listeners, rafPending, lastFrame>>
    /\ UNCHANGED besidesCursor

\* The pointer enters the document.
MouseEnter ==
    /\ eventsLeft > 0
    /\ eventsLeft' = eventsLeft - 1
    /\ IF "mouseenter" \in listeners
       THEN CursorHandled(OnMouseEnter(Running(cursor, cstyles), cenv),
                          "onMouseEnter")
       ELSE UNCHANGED <<cursor, cstyles, uncaught>>
    /\ UNCHANGED <<cenv, cursorPhase, pointer, listeners, rafPending,
                   lastFrame>>
    /\ UNCHANGED besidesCursor

\* The pointer leaves the document.
MouseLeave ==
    /\ eventsLeft > 0
    /\ eventsLeft' = eventsLeft - 1
    /\ IF "mouseleave" \in listeners
       THEN CursorHandled(OnMouseLeave(Running(cursor, cstyles), cenv),
                          "onMouseLeave")
       ELSE UNCHANGED <<cursor, cstyles, uncaught>>
    /\ UNCHANGED <<cenv, cursorPhase, pointer, listeners, rafPending,
                   lastFrame>>
    /\ UNCHANGED besidesCursor

\* The pointer enters an interactive element (addHoverListeners, 59-68).
ElementHover ==
    /\ eventsLeft > 0
    /\ eventsLeft' = eventsLeft - 1
    /\ IF "hover" \in listeners
       THEN CursorHandled(OnElementHover(Running(cursor, cstyles), cenv),
                          "onElementHover")
       ELSE UNCHANGED <<cursor, cstyles, uncaught>>
    /\ UNCHANGED <<cenv, cursorPhase, pointer, listeners, rafPending,
                   lastFrame>>
    /\ UNCHANGED besidesCursor

\* The pointer leaves an interactive element.
ElementLeave ==
    /\ eventsLeft > 0
    /\ eventsLeft' = eventsLeft - 1
    /\ IF "hover" \in listeners
       THEN CursorHandled(OnElementLeave(Running(cursor, cstyles), cenv),
                          "onElementLeave")
       ELSE UNCHANGED <<cursor, cstyles, uncaught>>
    /\ UNCHANGED <<cenv, cursorPhase, pointer, listeners, rafPending,
                   lastFrame>>
    /\ UNCHANGED besidesCursor

\* The queued requestAnimationFrame callback runs: animate(), lines 80-89.
AnimationFrame ==
    /\ rafPending
    /\ \E run \in {Animate(Running(cursor, cstyles), cenv)} :
           /\ CursorHandled(run, "animate")
           /\ rafPending' = run.raf
           /\ lastFrame' = FrameRecord(cursor, run.cursor)
    /\ UNCHANGED <<cenv, cursorPhase, pointer, listeners, eventsLeft>>
    /\ UNCHANGED besidesCursor

CursorEnv(innerEl, outerEl, maxTouchPoints, msMaxTouchPoints, hoverNone) ==
    [innerEl |-> innerEl, outerEl |-> outerEl,
     maxTouchPoints |-> maxTouchPoints,
     msMaxTouchPoints |-> msMaxTouchPoints, hoverNone |-> hoverNone]

\* Pages and devices: a desktop with both markers, with one of them, with
\* none; touch devices recognised by each of the three tests, with and
\* without the markers.
CursorEnvs ==
    { CursorEnv(TRUE, TRUE, Num(0), Undefined, FALSE),
      CursorEnv(FALSE, TRUE, Num(0), Undefined, FALSE),
      CursorEnv(TRUE, FALSE, Undefined, Undefined, FALSE),
      CursorEnv(FALSE, FALSE, Num(0), Num(0), FALSE),
      CursorEnv(TRUE, TRUE, Num(5), Undefined, FALSE),
      CursorEnv(TRUE, TRUE, Num(0), Num(2), FALSE),
      CursorEnv(TRUE, TRUE, Undefined, Undefined, TRUE),
      CursorEnv(FALSE, FALSE, Num(1), Undefined, TRUE) }

MaxPointerEvents == 2

NoPointer == [known |-> FALSE, at |-> <<0, 0>>]

\* The cursor before its DOMContentLoaded handler has run.
CursorIdle ==
    /\ cursorPhase = "loading"
    /\ pointer = NoPointer
    /\ cursor = NoCursor
    /\ cstyles = InitialStyles
    /\ listeners = {}
    /\ rafPending = FALSE
    /\ lastFrame = NoFrame
    /\ uncaught = {}

CursorStart ==
    /\ cenv \in CursorEnvs
    /\ eventsLeft = MaxPointerEvents
    /\ CursorIdle

\* A page whose cursor is left alone.
CursorQuiet ==
    /\ cenv = CursorEnv(TRUE, TRUE, Num(0), Undefined, FALSE)
    /\ eventsLeft = 0
    /\ CursorIdle

(***************************************************************************)
(* isValidEmail.                                                           *)
(***************************************************************************)
\* Characters matched by \s that occur in the inputs.
Whitespace == {" ", "\t", "\n"}

\* s[i..j] is a non-empty run of characters matching [^\s@].
PlainRun(s, i, j) ==
    /\ i <= j
    /\ \A k \in i..j : s[k] \notin Whitespace \cup {"@"}

\* A variant of IsValidEmail whose pattern is /^[^\s@]+@[^\s@]+$/.
IsValidEmailNoDot(email) ==
    LET s == JsToString(email)
    IN  \E at \in 1..Len(s) :
            /\ s[at] = "@"
            /\ PlainRun(s, 1, at - 1)
            /\ PlainRun(s, at + 1, Len(s))

\* isValidEmail, lines 453-456: /^[^\s@]+@[^\s@]+\.[^\s@]+$/.test(email).
IsValidEmail(email) ==
    LET s == JsToString(email)
    IN  \E at, dot \in 1..Len(s) :
            /\ s[at] = "@"
            /\ s[dot] = "."
            /\ PlainRun(s, 1, at - 1)
            /\ PlainRun(s, at + 1, dot - 1)
            /\ PlainRun(s, dot + 1, Len(s))

MaxEmailLen == 3

EmailAlphabet == {"a", "@", ".", " "}

RECURSIVE StringsUpTo(_)
StringsUpTo(n) ==
    IF n = 0 THEN {<<>>}
    ELSE LET shorter == StringsUpTo(n - 1)
         IN  shorter \cup {Append(s, c) : s \in shorter, c \in EmailAlphabet}

SampleEmails ==
    { <<"a", "@", "b", ".", "c", "o">>,
      <<"a", "@", "b">>,
      <<"a", " ", "b", "@", "c", ".", "c", "o", "m">>,
      <<>> }

EmailInputs == StringsUpTo(MaxEmailLen) \cup SampleEmails

\* isValidEmail is applied to the argument.
CheckEmail ==
    /\ emailResult = "unset"
    /\ emailResult' = IF IsValidEmail(Str(emailArg)) THEN "valid" ELSE "invalid"
    /\ UNCHANGED emailArg
    /\ UNCHANGED besidesEmail

EmailStart ==
    /\ emailArg \in EmailInputs
    /\ emailResult = "unset"

EmailQuiet ==
    /\ emailArg = <<>>
    /\ emailResult = "unset"

(***************************************************************************)
(* Contact form and notifications.                                         *)
(***************************************************************************)
Fields(name, email, message) ==
    [name |-> name, email |-> email, message |-> message]

\* !v for a form value: the empty string and undefined are falsy.
Falsy(v) == v.t = "undefined" \/ v.s = <<>>

MissingFieldsMessage == "Bitte fülle alle Felder aus!"

InvalidEmailMessage == "Bitte gib eine gültige E-Mail ein!"

ThanksMessage == "Danke für deine Nachricht! Wir kontaktieren dich bald."

\* showNotification, lines 467-497: a toast is appended to document.body and
\* a 3000 ms timer is set for it.
ShowNotification(toasts, message, type) ==
    Append(toasts,
           [message |-> message, type |-> type,
            color |-> IF type = "success" THEN "#2ecc71" ELSE "#e74c3c",
            stage |-> "shown"])

\* A submit handler's running state.
Submitting(fields, toasts) ==
    [fields |-> fields, toasts |-> toasts, prevented |-> FALSE,
     reset |-> FALSE, shown |-> <<>>]

Toast(run, message, type) ==
    [run EXCEPT !.toasts = ShowNotification(@, message, type),
                !.shown = Append(@, type)]

\* A variant of OnSubmit whose empty-field branch does not return.
OnSubmitFallsThrough(run, defaults) ==
    LET r0 == [run EXCEPT !.prevented = TRUE]
        sent == [f \in {"name", "email", "message"} |-> Str(run.fields[f])]
        r1 == IF Falsy(sent.name) \/ Falsy(sent.email) \/ Falsy(sent.message)
              THEN Toast(r0, MissingFieldsMessage, "error") ELSE r0
    IN  IF ~IsValidEmail(sent.email)
        THEN Toast(r1, InvalidEmailMessage, "error")
        ELSE [Toast(r1, ThanksMessage, "success")
                 EXCEPT !.fields = defaults, !.reset = TRUE]

\* A variant of OnSubmit that does not call this.reset().
OnSubmitKeepsFields(run, defaults) ==
    LET r0 == [run EXCEPT !.prevented = TRUE]
        sent == [f \in {"name", "email", "message"} |-> Str(run.fields[f])]
    IN  IF Falsy(sent.name) \/ Falsy(sent.email) \/ Falsy(sent.message)
        THEN Toast(r0, MissingFieldsMessage, "error")
        ELSE IF ~IsValidEmail(sent.email)
        THEN Toast(r0, InvalidEmailMessage, "error")
        ELSE Toast(r0, ThanksMessage, "success")

\* The submit listener, lines 419-447.
OnSubmit(run, defaults) ==
    LET r0 == [run EXCEPT !.prevented = TRUE]
        sent == [f \in {"name", "email", "message"} |-> Str(run.fields[f])]
    IN  IF Falsy(sent.name) \/ Falsy(sent.email) \/ Falsy(sent.message)
        THEN Toast(r0, MissingFieldsMessage, "error")
        ELSE IF ~IsValidEmail(sent.email)
        THEN Toast(r0, InvalidEmailMessage, "error")
        ELSE [Toast(r0, ThanksMessage, "success")
                 EXCEPT !.fields = defaults, !.reset = TRUE]

NoSubmit ==
    [happened |-> FALSE, prevented |-> FALSE, reset |-> FALSE,
     shown |-> <<>>, before |-> Fields(<<>>, <<>>, <<>>),
     after |-> Fields(<<>>, <<>>, <<>>)]

\* initContactForm, lines 414-419, called from the page's DOMContentLoaded
\* handler (616-628): without the form it returns at once.
FormReady ==
    /\ formPhase = "loading"
    /\ formPhase' = "ready"
    /\ submitListeners' = IF form.present THEN submitListeners + 1
                          ELSE submitListeners
    /\ UNCHANGED <<form, notifications, toastsShown, toastsRemoved,
                   lastSubmit, submitsLeft>>
    /\ UNCHANGED besidesForm

NameValues == {<<>>, <<"A", "l">>, <<" ">>}

EmailValues ==
    {<<>>, <<"a", "@", "b">>, <<"a", "@", "b", ".", "c", "o">>,
     <<"a", " ", "b", "@", "c", ".", "c", "o", "m">>}

MessageValues == {<<>>, <<"H", "i">>}

\* The visitor changes a field of the form.
EditField ==
    /\ form.present
    /\ \E f \in {"name", "email", "message"} :
           \E v \in (CASE f = "name" -> NameValues
                       [] f = "email" -> EmailValues
                       [] OTHER -> MessageValues) :
               /\ form.fields[f] # v
               /\ form' = [form EXCEPT !.fields[f] = v]
    /\ UNCHANGED <<formPhase, submitListeners, notifications, toastsShown,
                   toastsRemoved, lastSubmit, submitsLeft>>
    /\ UNCHANGED besidesForm

\* The form's submit event, handled by the submit listener.
SubmitForm ==
    /\ form.present
    /\ submitListeners > 0
    /\ submitsLeft > 0
    /\ submitsLeft' = submitsLeft - 1
    /\ \E run \in {OnSubmit(Submitting(form.fields, notifications),
                            form.defaults)} :
           /\ form' = [form EXCEPT !.fields = run.fields]
           /\ notifications' = run.toasts
           /\ toastsShown' =
                  toastsShown \o SubSeq(run.toasts, Len(notifications) + 1,
                                        Len(run.toasts))
           /\ lastSubmit' = [happened |-> TRUE, prevented |-> run.prevented,
                             reset |-> run.reset, shown |-> run.shown,
                             before |-> form.fields, after |-> run.fields]
    /\ UNCHANGED <<formPhase, submitListeners, toastsRemoved>>
    /\ UNCHANGED besidesForm

\* The 3000 ms timer of the oldest toast still shown fires, lines 493-496:
\* the toast starts to slide out and a 300 ms timer is set.
NotificationTimeout ==
    /\ \E i \in 1..Len(notifications) :
           /\ notifications[i].stage = "shown"
           /\ \A j \in 1..(i - 1) : notifications[j].stage # "shown"
           /\ notifications' = [notifications EXCEPT ![i].stage = "leaving"]
    /\ UNCHANGED <<form, formPhase, submitListeners, toastsShown,
                   toastsRemoved, lastSubmit, submitsLeft>>
    /\ UNCHANGED besidesForm

\* A variant of NotificationRemoved that does not wait for the slide-out.
NotificationRemovedAtOnce ==
    /\ notifications # <<>>
    /\ notifications' = Tail(notifications)
    /\ toastsRemoved' = Append(toastsRemoved, notifications[1])
    /\ UNCHANGED <<form, formPhase, submitListeners, toastsShown, lastSubmit,
                   submitsLeft>>
    /\ UNCHANGED besidesForm

\* The 300 ms timer of the oldest toast fires, line 495: it is removed.  The
\* timers of one delay fire in the order they were set, so the oldest toast
\* sliding out is the oldest toast.
NotificationRemoved ==
    /\ notifications # <<>>
    /\ notifications[1].stage = "leaving"
    /\ notifications' = Tail(notifications)
    /\ toastsRemoved' = Append(toastsRemoved, notifications[1])
    /\ UNCHANGED <<form, formPhase, submitListeners, toastsShown, lastSubmit,
                   submitsLeft>>
    /\ UNCHANGED besidesForm

MaxSubmits == 2

FormDefaults ==
    { Fields(<<>>, <<>>, <<>>), Fields(<<"A", "l">>, <<>>, <<>>) }

FormIdle ==
    /\ formPhase = "loading"
    /\ submitListeners = 0
    /\ notifications = <<>>
    /\ toastsShown = <<>>
    /\ toastsRemoved = <<>>
    /\ lastSubmit = NoSubmit

FormStart ==
    /\ \E present \in BOOLEAN, defaults \in FormDefaults :
           form = [present |-> present, defaults |-> defaults,
                   fields |-> defaults]
    /\ submitsLeft = MaxSubmits
    /\ FormIdle

\* A page whose form is left alone.
FormQuiet ==
    /\ form = [present |-> FALSE, defaults |-> Fields(<<>>, <<>>, <<>>),
               fields |-> Fields(<<>>, <<>>, <<>>)]
    /\ submitsLeft = 0
    /\ FormIdle

(***************************************************************************)
(* Mobile menu.                                                            *)
(***************************************************************************)
\* A page: whether #menuToggle and #navMenu exist, and whether the button
\* and the .nav-link elements lie inside an element of class navbar.
MenuPage(toggleEl, navEl, toggleInNavbar, linkInNavbar) ==
    [toggleEl |-> toggleEl, navEl |-> navEl,
     toggleInNavbar |-> toggleInNavbar, linkInNavbar |-> linkInNavbar]

\* Class 'active' on the button and on the panel; raised counts TypeErrors.
MenuClasses(button, panel) == [button |-> button, panel |-> panel]

Handling(classes) ==
    [button |-> classes.button, panel |-> classes.panel, raised |-> 0]

\* Lines 361-362: classList.toggle on the button, then on navMenu, which is
\* null on a page without #navMenu.
ToggleBoth(r, env) ==
    LET r1 == [r EXCEPT !.button = ~@]
    IN  IF env.navEl THEN [r1 EXCEPT !.panel = ~@]
        ELSE [r1 EXCEPT !.raised = @ + 1]

\* Lines 369-370 and 377-378: classList.remove on both.
RemoveBoth(r, env) ==
    LET r1 == [r EXCEPT !.button = FALSE]
    IN  IF env.navEl THEN [r1 EXCEPT !.panel = FALSE]
        ELSE [r1 EXCEPT !.raised = @ + 1]

\* What a click can hit: the button, a navigation link, another place
\* inside the navbar, a place outside it.
ClickTargets == {"toggle", "link", "navbar", "outside"}

\* event.target.closest('.navbar') is not null, line 376.
InNavbar(env, target) ==
    CASE target = "toggle" -> env.toggleInNavbar
      [] target = "link" -> env.linkInNavbar
      [] target = "navbar" -> TRUE
      [] OTHER -> FALSE

\* The button's click listener, lines 360-363.
OnMenuToggleClick(r, env) == ToggleBoth(r, env)

\* A variant of OnNavLinkClick that closes the panel and leaves the button.
OnNavLinkClickPanelOnly(r, env) ==
    IF env.navEl THEN [r EXCEPT !.panel = FALSE]
    ELSE [r EXCEPT !.raised = @ + 1]

\* A navigation link's click listener, lines 368-371.
OnNavLinkClick(r, env) == RemoveBoth(r, env)

\* A variant of OnDocumentClick that does not look where the click was.
OnDocumentClickAnywhere(r, env, target) == RemoveBoth(r, env)

\* The document's click listener, lines 375-380.
OnDocumentClick(r, env, target) ==
    IF ~InNavbar(env, target) THEN RemoveBoth(r, env) ELSE r

\* One click: the listeners on the target run, then, the event bubbling,
\* the document's.  A listener that raises does not stop the ones after it.
DispatchClick(r, env, target) ==
    LET r1 == CASE target = "toggle" -> OnMenuToggleClick(r, env)
                [] target = "link" -> OnNavLinkClick(r, env)
                [] OTHER -> r
    IN  OnDocumentClick(r1, env, target)

NoClick ==
    [happened |-> FALSE, handled |-> FALSE, target |-> "none",
     before |-> MenuClasses(FALSE, FALSE), after |-> MenuClasses(FALSE, FALSE)]

\* initMobileMenu, lines 353-380, called from the page's DOMContentLoaded
\* handler (616-628): without #menuToggle it registers nothing.
MenuReady ==
    /\ menuPhase = "loading"
    /\ menuPhase' = "ready"
    /\ menuListeners' = menuEnv.toggleEl
    /\ UNCHANGED <<menuEnv, menu, menuErrors, lastClick, clicksLeft>>
    /\ UNCHANGED besidesMenu

\* The visitor clicks somewhere.
Click ==
    /\ clicksLeft > 0
    /\ clicksLeft' = clicksLeft - 1
    /\ \E target \in ClickTargets :
           /\ target = "toggle" => menuEnv.toggleEl
           /\ LET r == IF menuListeners
                       THEN DispatchClick(Handling(menu), menuEnv, target)
                       ELSE Handling(menu)
              IN  /\ menu' = MenuClasses(r.button, r.panel)
                  /\ menuErrors' = menuErrors + r.raised
                  /\ lastClick' = [happened |-> TRUE,
                                   handled |-> menuListeners,
                                   target |-> target, before |-> menu,
                                   after |-> menu']
    /\ UNCHANGED <<menuEnv, menuPhase, menuListeners>>
    /\ UNCHANGED besidesMenu

MaxClicks == 3

\* The pages: the menu button, where there is one, is part of the
\* navigation container.
MenuPages ==
    { MenuPage(toggleEl, navEl, TRUE, linkInNavbar) :
          toggleEl \in BOOLEAN, navEl \in BOOLEAN, linkInNavbar \in BOOLEAN }

MenuIdle ==
    /\ menuPhase = "loading"
    /\ menuListeners = FALSE
    /\ menuErrors = 0
    /\ lastClick = NoClick

\* The markup may give either element class 'active' from the start.
MenuStart ==
    /\ menuEnv \in MenuPages
    /\ \E button, panel \in BOOLEAN :
           /\ button => menuEnv.toggleEl
           /\ panel => menuEnv.navEl
           /\ menu = MenuClasses(button, panel)
    /\ clicksLeft = MaxClicks
    /\ MenuIdle

\* Every page, the button inside the navbar or not, with neither element
\* 'active' in the markup.
MenuLayouts ==
    { MenuPage(toggleEl, navEl, toggleInNavbar, linkInNavbar) :
          toggleEl \in BOOLEAN, navEl \in BOOLEAN,
          toggleInNavbar \in BOOLEAN, linkInNavbar \in BOOLEAN }

MenuClosedStart ==
    /\ menuEnv \in MenuLayouts
    /\ menu = MenuClasses(FALSE, FALSE)
    /\ clicksLeft = MaxClicks
    /\ MenuIdle

\* A page whose menu is left alone.
MenuQuiet ==
    /\ menuEnv = MenuPage(FALSE, FALSE, TRUE, TRUE)
    /\ menu = MenuClasses(FALSE, FALSE)
    /\ clicksLeft = 0
    /\ MenuIdle

(***************************************************************************)
(* Reveal animations.                                                      *)
(***************************************************************************)
\* The .project-card and .impact-item elements of the page.
NumCards == 2

Cards == 1..NumCards

\* A card as the stylesheet leaves it: no inline style, not observed.
PlainCard == [opacity |-> "", animation |-> "", observed |-> FALSE]

Entry(target, isIntersecting) ==
    [target |-> target, isIntersecting |-> isIntersecting]

\* A variant of OnEntry that goes on observing the card.
OnEntryKeepsObserving(cs, e) ==
    IF e.isIntersecting
    THEN [cs EXCEPT ![e.target].opacity = "1",
                    ![e.target].animation = "slideInUp 0.6s ease forwards"]
    ELSE cs

\* The body of the callback's forEach for one entry, lines 516-521.
OnEntry(cs, e) ==
    IF e.isIntersecting
    THEN [cs EXCEPT ![e.target].opacity = "1",
                    ![e.target].animation = "slideInUp 0.6s ease forwards",
                    ![e.target].observed = FALSE]
    ELSE cs

\* The callback, lines 514-522, for the entries es from index i on.
RECURSIVE OnEntries(_, _, _)
OnEntries(cs, es, i) ==
    IF i > Len(es) THEN cs ELSE OnEntries(OnEntry(cs, es[i]), es, i + 1)

\* The cards the entries es report intersecting.
Intersecting(es) ==
    {es[i].target : i \in {k \in 1..Len(es) : es[k].isIntersecting}}

\* The entries the observer queues for the cards of set cs, in document
\* order from card c on, given which cards intersect.
RECURSIVE EntriesFor(_, _, _)
EntriesFor(cs, view, c) ==
    IF c > NumCards THEN <<>>
    ELSE (IF c \in cs THEN <<Entry(c, c \in view)>> ELSE <<>>)
             \o EntriesFor(cs, view, c + 1)

\* initIntersectionObserver, lines 507-529, called from the page's
\* DOMContentLoaded handler: every card is hidden and observed; observe()
\* makes the observer queue a first entry for the card.
ObserverReady ==
    /\ obsPhase = "loading"
    /\ obsPhase' = "ready"
    /\ cards' = [c \in Cards |->
                    [cards[c] EXCEPT !.opacity = "0", !.observed = TRUE]]
    /\ entryQueue' = EntriesFor(Cards, inView, 1)
    /\ UNCHANGED <<inView, reported, revealSteps, scrollsLeft>>
    /\ UNCHANGED besidesObserver

\* The page is scrolled or resized: the observer queues an entry for every
\* observed card that has begun or ceased to intersect.
ViewportChange ==
    /\ scrollsLeft > 0
    /\ scrollsLeft' = scrollsLeft - 1
    /\ \E view \in SUBSET Cards :
           /\ view # inView
           /\ inView' = view
           /\ entryQueue' =
                  entryQueue \o
                  EntriesFor({c \in Cards : /\ cards[c].observed
                                            /\ (c \in view) # (c \in inView)},
                             view, 1)
    /\ UNCHANGED <<obsPhase, cards, reported, revealSteps>>
    /\ UNCHANGED besidesObserver

\* The observer calls the callback with the entries queued.
ObserverCallback ==
    /\ entryQueue # <<>>
    /\ cards' = OnEntries(cards, entryQueue, 1)
    /\ reported' = reported \cup Intersecting(entryQueue)
    /\ revealSteps' =
           [c \in Cards |->
               IF c \in Intersecting(entryQueue) THEN revealSteps[c] + 1
               ELSE revealSteps[c]]
    /\ entryQueue' = <<>>
    /\ UNCHANGED <<obsPhase, inView, scrollsLeft>>
    /\ UNCHANGED besidesObserver

MaxScrolls == 3

ObserverIdle ==
    /\ obsPhase = "loading"
    /\ cards = [c \in Cards |-> PlainCard]
    /\ entryQueue = <<>>
    /\ reported = {}
    /\ revealSteps = [c \in Cards |-> 0]

ObserverStart ==
    /\ inView \in SUBSET Cards
    /\ scrollsLeft = MaxScrolls
    /\ ObserverIdle

\* A page whose cards are left alone.
ObserverQuiet ==
    /\ inView = {}
    /\ scrollsLeft = 0
    /\ ObserverIdle

(***************************************************************************)
(* Smooth scrolling.                                                       *)
(***************************************************************************)
\* href attributes of the page's a[href^="#"] elements: the bare '#', two
\* ordinary fragments and one that is not a selector.
Hrefs == {<<"#">>, <<"#", "a">>, <<"#", "b">>, <<"#", "1">>}

\* ids an element of the page may have.
Ids == {<<"a">>, <<"1">>}

\* document.querySelector(href) for an href '#...': a SyntaxError when what
\* follows the '#' is not an identifier (nothing, or a digit first), else
\* the element of that id or null.
QuerySelector(ids, href) ==
    IF Len(href) < 2 \/ href[2] \in DigitSet THEN [t |-> "throws", id |-> <<>>]
    ELSE IF Tail(href) \in ids THEN [t |-> "element", id |-> Tail(href)]
    ELSE [t |-> "null", id |-> <<>>]

\* What a listener has done: preventDefault, scrollIntoView calls, raised.
Listened(prevented, scrolls, raised) ==
    [prevented |-> prevented, scrolls |-> scrolls, raised |-> raised]

NotListening == Listened(FALSE, <<>>, FALSE)

ScrollRequest(id, block) ==
    [target |-> id, behavior |-> "smooth", block |-> block]

\* The listener registered at the script's top level, lines 314-323.
OnAnchorClickTopLevel(ids, href) ==
    IF href = <<"#">> THEN NotListening
    ELSE LET q == QuerySelector(ids, href)
         IN  CASE q.t = "throws" -> Listened(FALSE, <<>>, TRUE)
               [] q.t = "null" -> NotListening
               [] OTHER -> Listened(TRUE, <<ScrollRequest(q.id, "start")>>,
                                    FALSE)

\* A variant of OnAnchorClick that cancels the default only with a target.
OnAnchorClickGuarded(ids, href) ==
    IF href = <<"#">> THEN NotListening
    ELSE LET q == QuerySelector(ids, href)
         IN  CASE q.t = "throws" -> Listened(FALSE, <<>>, TRUE)
               [] q.t = "null" -> NotListening
               [] OTHER -> Listened(TRUE, <<ScrollRequest(q.id, "unset")>>,
                                    FALSE)

\* The listener registered by initSmoothScroll, lines 392-402.
OnAnchorClick(ids, href) ==
    IF href = <<"#">> THEN NotListening
    ELSE LET q == QuerySelector(ids, href)
         IN  CASE q.t = "throws" -> Listened(TRUE, <<>>, TRUE)
               [] q.t = "null" -> Listened(TRUE, <<>>, FALSE)
               [] OTHER -> Listened(TRUE, <<ScrollRequest(q.id, "unset")>>,
                                    FALSE)

NoAnchorClick ==
    [happened |-> FALSE, href |-> <<>>, ranTop |-> FALSE, ranInit |-> FALSE,
     top |-> NotListening, init |-> NotListening, prevented |-> FALSE,
     scrolls |-> <<>>]

\* initSmoothScroll, lines 390-404, called from the page's DOMContentLoaded
\* handler (616-628).
SmoothScrollReady ==
    /\ scrollPhase = "loading"
    /\ scrollPhase' = "ready"
    /\ UNCHANGED <<scrollEnv, lastAnchorClick, anchorClicksLeft>>
    /\ UNCHANGED besidesScroll

\* The visitor clicks an anchor: the listeners registered so far run in the
\* order they were registered; one that raises does not stop the next.
AnchorClick ==
    /\ anchorClicksLeft > 0
    /\ anchorClicksLeft' = anchorClicksLeft - 1
    /\ \E href \in Hrefs :
           LET ranTop == scrollEnv.topLevel
               ranInit == scrollPhase = "ready"
               top == IF ranTop THEN OnAnchorClickTopLevel(scrollEnv.ids, href)
                      ELSE NotListening
               init == IF ranInit THEN OnAnchorClick(scrollEnv.ids, href)
                       ELSE NotListening
           IN  lastAnchorClick' =
                   [happened |-> TRUE, href |-> href, ranTop |-> ranTop,
                    ranInit |-> ranInit, top |-> top, init |-> init,
                    prevented |-> top.prevented \/ init.prevented,
                    scrolls |-> top.scrolls \o init.scrolls]
    /\ UNCHANGED <<scrollEnv, scrollPhase>>
    /\ UNCHANGED besidesScroll

MaxAnchorClicks == 2

ScrollIdle ==
    /\ scrollPhase = "loading"
    /\ lastAnchorClick = NoAnchorClick

\* The top-level statement finds the anchors only if the script runs after
\* the document's body has been parsed.
ScrollStart ==
    /\ \E ids \in SUBSET Ids, topLevel \in BOOLEAN :
           scrollEnv = [ids |-> ids, topLevel |-> topLevel]
    /\ anchorClicksLeft = MaxAnchorClicks
    /\ ScrollIdle

\* A page whose anchors are left alone.
ScrollQuiet ==
    /\ scrollEnv = [ids |-> {}, topLevel |-> FALSE]
    /\ anchorClicksLeft = 0
    /\ ScrollIdle

(***************************************************************************)
(* Specifications: each part of the page is explored with the rest of the  *)
(* page left alone.                                                        *)
(***************************************************************************)
Init ==
    /\ DashboardStart
    /\ ScrollQuiet
    /\ ObserverQuiet
    /\ CursorQuiet
    /\ EmailQuiet
    /\ FormQuiet
    /\ MockQuiet
    /\ MenuQuiet

Next ==
    \/ DashboardReady
    \/ TimerTick
    \/ FetchRejected
    \/ FetchHttpError
    \/ FetchOk
    \/ JsonResolved
    \/ JsonFailed

Spec == Init /\ [][Next]_vars

CursorInit ==
    /\ DashboardQuiet
    /\ ScrollQuiet
    /\ ObserverQuiet
    /\ CursorStart
    /\ EmailQuiet
    /\ FormQuiet
    /\ MockQuiet
    /\ MenuQuiet

CursorNext ==
    \/ CursorReady
    \/ MouseMove
    \/ MouseEnter
    \/ MouseLeave
    \/ ElementHover
    \/ ElementLeave
    \/ AnimationFrame

CursorSpec == CursorInit /\ [][CursorNext]_vars

EmailInit ==
    /\ DashboardQuiet
    /\ ScrollQuiet
    /\ ObserverQuiet
    /\ CursorQuiet
    /\ EmailStart
    /\ FormQuiet
    /\ MockQuiet
    /\ MenuQuiet

EmailNext == CheckEmail

EmailSpec == EmailInit /\ [][EmailNext]_vars

FormInit ==
    /\ DashboardQuiet
    /\ ScrollQuiet
    /\ ObserverQuiet
    /\ CursorQuiet
    /\ EmailQuiet
    /\ FormStart
    /\ MockQuiet
    /\ MenuQuiet

FormNext ==
    \/ FormReady
    \/ EditField
    \/ SubmitForm
    \/ NotificationTimeout
    \/ NotificationRemoved

FormSpec == FormInit /\ [][FormNext]_vars

\* The two timers of a toast fire once they are due.
FairFormSpec ==
    FormSpec /\ WF_vars(NotificationTimeout) /\ WF_vars(NotificationRemoved)

MockInit ==
    /\ DashboardQuiet
    /\ ScrollQuiet
    /\ ObserverQuiet
    /\ CursorQuiet
    /\ EmailQuiet
    /\ FormQuiet
    /\ MockStart
    /\ MenuQuiet

MockNext == CallGenerateMockData

MockSpec == MockInit /\ [][MockNext]_vars

MenuInit ==
    /\ DashboardQuiet
    /\ ScrollQuiet
    /\ ObserverQuiet
    /\ CursorQuiet
    /\ EmailQuiet
    /\ FormQuiet
    /\ MockQuiet
    /\ MenuStart

MenuNext ==
    \/ MenuReady
    \/ Click

MenuSpec == MenuInit /\ [][MenuNext]_vars

MenuClosedInit ==
    /\ DashboardQuiet
    /\ CursorQuiet
    /\ EmailQuiet
    /\ FormQuiet
    /\ MockQuiet
    /\ MenuClosedStart
    /\ ObserverQuiet
    /\ ScrollQuiet

MenuClosedSpec == MenuClosedInit /\ [][MenuNext]_vars

ObserverInit ==
    /\ DashboardQuiet
    /\ ScrollQuiet
    /\ CursorQuiet
    /\ EmailQuiet
    /\ FormQuiet
    /\ MockQuiet
    /\ MenuQuiet
    /\ ObserverStart

ObserverNext ==
    \/ ObserverReady
    \/ ViewportChange
    \/ ObserverCallback

ObserverSpec == ObserverInit /\ [][ObserverNext]_vars

ScrollInit ==
    /\ DashboardQuiet
    /\ CursorQuiet
    /\ EmailQuiet
    /\ FormQuiet
    /\ MockQuiet
    /\ MenuQuiet
    /\ ObserverQuiet
    /\ ScrollStart

ScrollNext ==
    \/ SmoothScrollReady
    \/ AnchorClick

ScrollSpec == ScrollInit /\ [][ScrollNext]_vars

(***************************************************************************)
(* Properties of the dashboard.                                            *)
(***************************************************************************)
Min(a, b) == IF a < b THEN a ELSE b

Histories == <<data.temperature, data.humidity, data.pressure, data.timestamps>>

\* C1: in every reachable state each of the four histories (temperature,
\* humidity, pressure, timestamps) holds at most 20 entries.
C1_HistoriesAtMostCap ==
    \A i \in 1..4 : Len(Histories[i]) <= HistoryCap

\* C1 witness: more than 20 readings, real ones among them, have been
\* appended and the histories are full.
C1_Witness ==
    /\ Len(appended) > HistoryCap
    /\ \E i \in 1..Len(appended) : appended[i].reading \in Bodies
    /\ Len(data.timestamps) = HistoryCap

\* C2: after n appended readings each history is the last min(n, 20) of the
\* values pushed for them, in arrival order.
C2_HistoriesAreLastAppended ==
    LET n == Len(appended)
        k == Min(n, HistoryCap)
        at(i) == appended[n - k + i].pushed
    IN  /\ \A i \in 1..4 : Len(Histories[i]) = k
        /\ \A i \in 1..k :
              /\ data.temperature[i] = at(i).temperature
              /\ data.humidity[i] = at(i).humidity
              /\ data.pressure[i] = at(i).pressure
              /\ data.timestamps[i] = at(i).timestamp

\* C2 witness: two evictions have happened, so the oldest kept entry is the
\* third reading appended, and the readings are not all alike.
C2_Witness ==
    /\ Len(appended) = HistoryCap + 2
    /\ data.timestamps[1] = appended[3].reading.timestamp
    /\ data.temperature[1] = ParseFloat(appended[3].reading.temperature)
    /\ appended[1] # appended[3]
    /\ \E i \in 1..Len(appended) : appended[i].reading \in Bodies

FailedFetchPaths == {"fetchThrew", "rejected", "httpError", "parseFailed"}

\* C3: a fetch cycle whose network call throws, is rejected, returns a
\* non-success status or whose body fails to parse passes a freshly
\* generated mock reading to updateDashboard and completes without an
\* error: its promise does not reject.
C3_FailedFetchFallsBackQuietly ==
    lastCycle.path \in FailedFetchPaths =>
        /\ \E i \in 1..Len(lastCycle.calls) :
              lastCycle.calls[i].origin = "mock"
        /\ ~lastCycle.rejected
        /\ rejections = 0

\* The timer is fair: setInterval keeps firing.
FairSpec == Spec /\ WF_vars(TimerTick)

InFlight == awaitingFetch + awaitingJson

\* An answer is outstanding that will arrive before the period ends.
AnswerDue == InFlight > 0 /\ faultsLeft = 0

\* C4: constructing the dashboard starts one cycle before any tick and sets
\* the timer; the timer is never cancelled; every tick starts one more
\* cycle, also while earlier cycles are pending or have failed, so the cycles
\* started are always the ticks plus one; the next tick is possible unless
\* the run is over or an answer is due first; and under a fair timer the
\* ticks go on until the run is over or an answer is due.
C4_TimerKeepsStartingCycles ==
    /\ [](dashboard => timerActive /\ started = clock + 1)
    /\ [](~dashboard => ~timerActive /\ started = 0)
    /\ [][timerActive => timerActive']_vars
    /\ [](timerActive /\ cyclesLeft > 0 /\ ~AnswerDue => ENABLED TimerTick)
    /\ (dashboard ~> (cyclesLeft = 0 \/ AnswerDue))

\* C4 witness: a tick has started a cycle while the first was still pending.
C4_Witness ==
    /\ dashboard
    /\ clock = 1
    /\ started = 2
    /\ awaitingFetch = 2

RECURSIVE Pow10(_)
Pow10(e) == IF e = 0 THEN 1 ELSE 10 * Pow10(e - 1)

\* lo <= x <= hi for a number x and integers lo, hi.
InRange(x, lo, hi) ==
    ~x.nan /\ lo * Pow10(x.e) <= x.m /\ x.m <= hi * Pow10(x.e)

EndsWith(s, suffix) ==
    /\ Len(s) >= Len(suffix)
    /\ SubSeq(s, Len(s) - Len(suffix) + 1, Len(s)) = suffix

WithoutSuffix(s, suffix) == SubSeq(s, 1, Len(s) - Len(suffix))

LastAppended == appended[Len(appended)].reading

\* C10: once a reading has been appended, each readout that exists shows the
\* newest reading's value followed by its unit, and the newest history entry
\* is that value; after a cycle whose fetch was rejected the temperature
\* readout ends in "°C" and its value lies in [20, 30].
C10_ReadoutsShowNewestReading ==
    /\ appended # <<>> =>
          /\ dom.tempEl =>
                /\ readouts.temp = JsToString(LastAppended.temperature) \o TempSuffix
                /\ data.temperature[Len(data.temperature)]
                       = ParseFloat(Str(WithoutSuffix(readouts.temp, TempSuffix)))
          /\ dom.humidEl =>
                /\ readouts.humid = JsToString(LastAppended.humidity) \o HumidSuffix
                /\ data.humidity[Len(data.humidity)]
                       = ParseFloat(Str(WithoutSuffix(readouts.humid, HumidSuffix)))
          /\ dom.pressEl =>
                /\ readouts.press = JsToString(LastAppended.pressure) \o PressSuffix
                /\ data.pressure[Len(data.pressure)]
                       = ParseFloat(Str(WithoutSuffix(readouts.press, PressSuffix)))
    /\ lastCycle.path = "rejected" /\ dom.tempEl =>
          /\ EndsWith(readouts.temp, TempSuffix)
          /\ InRange(ParseFloat(Str(WithoutSuffix(readouts.temp, TempSuffix))),
                     20, 30)

\* C10 witness: the first polling cycle found the endpoint unreachable and
\* the temperature readout shows a mock value.
C10_Witness ==
    /\ completed = 1
    /\ lastCycle.path = "rejected"
    /\ dom.tempEl /\ dom.pressEl
    /\ readouts.temp # Placeholder
    /\ EndsWith(readouts.press, PressSuffix)

(***************************************************************************)
(* Properties of the cursor.                                               *)
(***************************************************************************)
\* The follower's offset from the pointer on axis a, in quanta.
OffsetBefore(a) == lastFrame.inner[a] - lastFrame.before[a]

OffsetAfter(a) == lastFrame.inner[a] - lastFrame.after[a]

\* Squares of the Euclidean distances, in quanta squared.
DistSqBefore == OffsetBefore(1) * OffsetBefore(1) + OffsetBefore(2) * OffsetBefore(2)

DistSqAfter == OffsetAfter(1) * OffsetAfter(1) + OffsetAfter(2) * OffsetAfter(2)

\* The spacing of the representable numbers around n.
Ulp(n) == Pow2(SpacingExp(Abs(n), 1, 0))

Max(a, b) == IF a > b THEN a ELSE b

\* The frame moved the follower on axis a by 0.12 of its offset, to within
\* the rounding of the constant and of the three operations: one unit in the
\* last place of the larger coordinate plus 2^-(MantissaBits + 1) of the
\* offset.
MovedByEase(a) ==
    LET d     == OffsetBefore(a)
        moved == lastFrame.after[a] - lastFrame.before[a]
        top   == Max(Abs(lastFrame.inner[a]), Abs(lastFrame.before[a]))
        scale == Pow2(MantissaBits + 1)
    IN  scale * Abs(100 * moved - 12 * d)
            <= 100 * (scale * Ulp(top) + Abs(d))

\* The offset at and above which a frame is certain to move the follower.
SureStep(a) ==
    8 * Ulp(Max(Abs(lastFrame.inner[a]), Abs(lastFrame.before[a])))

\* C5 as stated: a call of animate() that finds the follower away from the
\* pointer strictly decreases its distance to the pointer, by the factor
\* 1 - 0.12 (to within rounding), and does not bring it onto the pointer.
C5_DistanceShrinksEveryFrame ==
    lastFrame.ran /\ lastFrame.before # lastFrame.inner =>
        /\ DistSqAfter < DistSqBefore
        /\ \A a \in 1..2 : MovedByEase(a)
        /\ lastFrame.after # lastFrame.inner

\* C5 as the code has it: on each axis a call of animate() never increases
\* the follower's offset from the pointer and never changes its sign (an
\* offset of zero stays zero, any other never becomes zero); it moves the
\* follower by 0.12 of the offset to within rounding; and it strictly
\* decreases the offset when that is at least eight units in the last place
\* of the larger coordinate.  Below that the follower may stop short.
C5_FollowerClosesInUntilItStalls ==
    lastFrame.ran =>
        \A a \in 1..2 :
            /\ Abs(OffsetAfter(a)) <= Abs(OffsetBefore(a))
            /\ Sign(OffsetAfter(a)) = Sign(OffsetBefore(a))
            /\ MovedByEase(a)
            /\ Abs(OffsetBefore(a)) >= SureStep(a) =>
                   Abs(OffsetAfter(a)) < Abs(OffsetBefore(a))

\* C5 witness: with the pointer at rest away from the follower's start, a
\* frame has run that changed nothing although the follower is not at the
\* pointer on either axis.
C5_Witness ==
    /\ lastFrame.ran
    /\ pointer.known
    /\ lastFrame.after = lastFrame.before
    /\ \A a \in 1..2 : OffsetAfter(a) # 0
    /\ rafPending

\* The device reports touch points or a pointer that cannot hover.
TouchCapable ==
    \/ (cenv.maxTouchPoints.t = "number" /\ cenv.maxTouchPoints.v > 0)
    \/ (cenv.msMaxTouchPoints.t = "number" /\ cenv.msMaxTouchPoints.v > 0)
    \/ cenv.hoverNone

\* C6: on a device detected as touch-capable, once the cursor has been
\* constructed there is no listener and no queued animation frame, and the
\* follower position, the other fields and the marker styles are as the
\* constructor left them whatever pointer events arrive; nothing is raised.
C6_TouchDeviceDisablesCursor ==
    TouchCapable /\ cursorPhase = "ready" =>
        /\ listeners = {}
        /\ ~rafPending
        /\ ~lastFrame.ran
        /\ cursor = NewCursor
        /\ cstyles = InitialStyles
        /\ uncaught = {}

\* C6 witness: a device touch-capable by the media query alone, on which two
\* pointer events, a move among them, have arrived after construction.
C6_Witness ==
    /\ cenv.hoverNone
    /\ ~GreaterThanZero(cenv.maxTouchPoints)
    /\ ~GreaterThanZero(cenv.msMaxTouchPoints)
    /\ cursorPhase = "ready"
    /\ pointer.known
    /\ eventsLeft = 0

(***************************************************************************)
(* Properties of isValidEmail and the contact form.                        *)
(***************************************************************************)
Checked(s) == emailArg = s /\ emailResult # "unset"

\* C7 as stated: "a@b.co" is valid, "a@b" is valid, "a b@c.com" is invalid
\* and the empty string is invalid.
C7_SampleVerdictsAsStated ==
    /\ Checked(<<"a", "@", "b", ".", "c", "o">>) => emailResult = "valid"
    /\ Checked(<<"a", "@", "b">>) => emailResult = "valid"
    /\ Checked(<<"a", " ", "b", "@", "c", ".", "c", "o", "m">>) =>
           emailResult = "invalid"
    /\ Checked(<<>>) => emailResult = "invalid"

\* C7 as the code has it: "a@b.co" is valid; "a@b" is invalid, as is every
\* string without a "." somewhere after its "@"; "a b@c.com" is invalid and
\* the empty string is invalid.
C7_SampleVerdicts ==
    /\ Checked(<<"a", "@", "b", ".", "c", "o">>) => emailResult = "valid"
    /\ Checked(<<"a", "@", "b">>) => emailResult = "invalid"
    /\ Checked(<<"a", " ", "b", "@", "c", ".", "c", "o", "m">>) =>
           emailResult = "invalid"
    /\ Checked(<<>>) => emailResult = "invalid"
    /\ emailResult = "valid" =>
           \E at, dot \in 1..Len(emailArg) :
               at < dot /\ emailArg[at] = "@" /\ emailArg[dot] = "."

\* C7 witness: isValidEmail has been applied to "a@b".
C7_Witness ==
    /\ emailArg = <<"a", "@", "b">>
    /\ emailResult = "invalid"

\* The submitted values do not pass the form's validation.
SubmittedInvalid ==
    \/ lastSubmit.before.name = <<>>
    \/ lastSubmit.before.email = <<>>
    \/ lastSubmit.before.message = <<>>
    \/ ~IsValidEmail(Str(lastSubmit.before.email))

\* C8: a submission in which name, email or message is empty or the email
\* fails isValidEmail has its default action cancelled, shows exactly one
\* toast, an error toast, and does not reset the form: the field values
\* are what they were.
C8_InvalidSubmissionIsRefused ==
    lastSubmit.happened /\ SubmittedInvalid =>
        /\ lastSubmit.prevented
        /\ lastSubmit.shown = <<"error">>
        /\ ~lastSubmit.reset
        /\ lastSubmit.after = lastSubmit.before

\* C8 witness: every field was filled but the email was "a@b"; the values
\* differ from the form's defaults and the error toast is on the page.
C8_Witness ==
    /\ lastSubmit.happened
    /\ lastSubmit.before.name # <<>>
    /\ lastSubmit.before.message # <<>>
    /\ lastSubmit.before.email = <<"a", "@", "b">>
    /\ lastSubmit.before # form.defaults
    /\ \E i \in 1..Len(notifications) :
           notifications[i].message = InvalidEmailMessage

\* C9: a feature whose DOM target is absent does nothing: the cursor with a
\* marker missing raises nothing and leaves the styles alone, the script of
\* a page without the contact form registers no submit listener and shows
\* no toast, a missing readout is never written, and without a chart
\* nothing is redrawn.
C9_MissingTargetIsSilentNoOp ==
    /\ ~cenv.innerEl \/ ~cenv.outerEl =>
           uncaught = {} /\ cstyles = InitialStyles
    /\ ~form.present => submitListeners = 0 /\ notifications = <<>>
    /\ ~dom.tempEl => readouts.temp = Placeholder
    /\ ~dom.humidEl => readouts.humid = Placeholder
    /\ ~dom.pressEl => readouts.press = Placeholder
    /\ chart = "null" => redraws = 0

(***************************************************************************)
(* Properties of generateMockData.                                         *)
(***************************************************************************)
\* s is digits, a point and exactly two digits.
IsTwoDecimalText(s) ==
    /\ Len(s) >= 4
    /\ s[Len(s) - 2] = "."
    /\ \A i \in 1..Len(s) : i # Len(s) - 2 => s[i] \in DigitSet

\* C11: the reading returned by generateMockData has temperature in
\* [20, 30], humidity in [40, 70] and pressure in [1013, 1018], each a string
\* with exactly two decimals.
C11_MockReadingInRange ==
    mockReading # NoReading =>
        /\ mockReading.temperature.t = "string"
        /\ IsTwoDecimalText(mockReading.temperature.s)
        /\ InRange(ParseFloat(mockReading.temperature), 20, 30)
        /\ mockReading.humidity.t = "string"
        /\ IsTwoDecimalText(mockReading.humidity.s)
        /\ InRange(ParseFloat(mockReading.humidity), 40, 70)
        /\ mockReading.pressure.t = "string"
        /\ IsTwoDecimalText(mockReading.pressure.s)
        /\ InRange(ParseFloat(mockReading.pressure), 1013, 1018)

\* C11 witness: random values below 1 for which rounding to two decimals
\* gives the upper ends 30.00 and 1018.00, with the lower end 40.00.
C11_Witness ==
    /\ mockRandoms = <<9999, 0, 9999>>
    /\ mockReading.temperature = Str(<<"3", "0", ".", "0", "0">>)
    /\ mockReading.humidity = Str(<<"4", "0", ".", "0", "0">>)
    /\ mockReading.pressure = Str(<<"1", "0", "1", "8", ".", "0", "0">>)

(***************************************************************************)
(* Appends per fetch cycle.                                                *)
(***************************************************************************)
\* The calls of updateDashboard in the last settled cycle that reached the
\* pushes of lines 181-184.
AppendsOfLastCycle ==
    Cardinality({i \in 1..Len(lastCycle.calls) :
                    ~lastCycle.calls[i].threw \/ lastCycle.calls[i].inChart})

\* C12: every settled fetch cycle has appended exactly one reading, so the
\* number of readings appended equals the number of settled cycles.
C12_OneAppendPerCycle ==
    /\ Len(appended) = completed
    /\ lastCycle # NoCycle => AppendsOfLastCycle = 1

(***************************************************************************)
(* Where a fetch cycle is suspended.                                       *)
(***************************************************************************)
\* C13 as stated: a cycle that has started and not settled is waiting for
\* the network call; no cycle is ever suspended anywhere else.
C13_SuspendedOnlyAtFetch ==
    started = completed + awaitingFetch

\* C13, amended: a cycle that has started and not settled is waiting either
\* for the network call or for response.json(); a cycle that has settled
\* has made its call of updateDashboard, and on the path through
\* response.json() the first call is the one with the parsed body.
C13_SuspendedOnlyAtAwaits ==
    /\ started = completed + awaitingFetch + awaitingJson
    /\ lastCycle # NoCycle => Len(lastCycle.calls) >= 1
    /\ lastCycle.path = "json" => lastCycle.calls[1].origin = "real"

\* C13 witness: one cycle waits for response.json() while the timer has
\* ticked and another cycle has run from its rejected fetch to its end.
C13_Witness ==
    /\ awaitingJson = 1
    /\ clock = 1
    /\ completed = 1
    /\ lastCycle.path = "rejected"

(***************************************************************************)
(* The four histories under overlapping cycles.                            *)
(***************************************************************************)
\* The values the four histories hold at index i.
Row(i) ==
    [temperature |-> data.temperature[i], humidity |-> data.humidity[i],
     pressure |-> data.pressure[i], timestamp |-> data.timestamps[i]]

\* C14: in every state between events the four histories have the same
\* length, and the four values at an index are those pushed for one and the
\* same reading.
C14_HistoriesInLockStep ==
    /\ Len(data.humidity) = Len(data.temperature)
    /\ Len(data.pressure) = Len(data.temperature)
    /\ Len(data.timestamps) = Len(data.temperature)
    /\ \A i \in 1..Len(data.temperature) :
          \E j \in 1..Len(appended) : Row(i) = appended[j].pushed

\* C14 witness: two cycles were in flight together; the one started second
\* or first was settled by a rejected fetch after the tick, the other went
\* through response.json() and settled last, and both readings are kept.
C14_Witness ==
    /\ started = 2
    /\ completed = 2
    /\ clock = 1
    /\ Len(appended) = 2
    /\ appended[1].reading.timestamp = Str(LocaleTimeString(1))
    /\ appended[1].reading \notin Bodies
    /\ lastCycle.path = "json"
    /\ Len(data.timestamps) = 2

(***************************************************************************)
(* Valid submissions of the contact form.                                  *)
(***************************************************************************)
\* C15: a submission in which name, email and message are non-empty and the
\* email passes isValidEmail has its default action cancelled, shows exactly
\* one toast, a success toast, resets the fields to the form's defaults
\* and starts no network request; the form is reset exactly when the
\* validation passed.
C15_ValidSubmissionSucceeds ==
    lastSubmit.happened =>
        /\ lastSubmit.reset <=> ~SubmittedInvalid
        /\ ~SubmittedInvalid =>
              /\ lastSubmit.prevented
              /\ lastSubmit.shown = <<"success">>
              /\ lastSubmit.after = form.defaults
              /\ started = 0
              /\ awaitingFetch = 0

\* C15 witness: a valid submission whose values differed from the form's
\* defaults, with its toast on the page in the success colour.
C15_Witness ==
    /\ lastSubmit.happened
    /\ ~SubmittedInvalid
    /\ lastSubmit.before # form.defaults
    /\ lastSubmit.after = form.defaults
    /\ \E i \in 1..Len(notifications) :
           /\ notifications[i].message = ThanksMessage
           /\ notifications[i].type = "success"

(***************************************************************************)
(* Notifications.                                                          *)
(***************************************************************************)
\* Toast a is toast b, whatever stage each is in.
SameToast(a, b) ==
    a.message = b.message /\ a.type = b.type /\ a.color = b.color

\* Every toast inserted is either on the page or has been removed, once:
\* the toasts removed followed by the toasts on the page are the toasts
\* inserted, in order.  A toast was sliding out when it was removed, and
\* its colour is the success colour exactly when its type is 'success'.
ToastsAccountedFor ==
    /\ Len(toastsShown) = Len(toastsRemoved) + Len(notifications)
    /\ \A i \in 1..Len(toastsRemoved) :
          /\ SameToast(toastsRemoved[i], toastsShown[i])
          /\ toastsRemoved[i].stage = "leaving"
    /\ \A i \in 1..Len(notifications) :
          SameToast(notifications[i], toastsShown[Len(toastsRemoved) + i])
    /\ \A i \in 1..Len(toastsShown) :
          /\ toastsShown[i].stage = "shown"
          /\ toastsShown[i].color =
                 (IF toastsShown[i].type = "success" THEN "#2ecc71"
                  ELSE "#e74c3c")

\* C17: every toast inserted by showNotification is removed in the end
\* (again and again all the toasts inserted so far have been removed); it
\* is removed once, after its 3000 ms timer has started its slide-out,
\* whatever other toasts are on the page; its colour is the success colour
\* exactly for type 'success'.
C17_ToastsAreRemovedOnce ==
    /\ []ToastsAccountedFor
    /\ []<>(Len(toastsRemoved) = Len(toastsShown))

\* C17 witness: two toasts of different severity are on the page together,
\* the 3000 ms timer of each has fired and neither has been removed yet.
C17_Witness ==
    /\ Len(notifications) = 2
    /\ notifications[1].type # notifications[2].type
    /\ notifications[1].stage = "leaving"
    /\ notifications[2].stage = "leaving"
    /\ toastsRemoved = <<>>

C18_CardsRevealedOnce ==
    obsPhase = "ready" =>
        \A c \in Cards :
            /\ revealSteps[c] <= 1
            /\ c \notin reported =>
                  /\ cards[c].opacity = "0"
                  /\ cards[c].animation = ""
                  /\ cards[c].observed
                  /\ revealSteps[c] = 0
            /\ c \in reported =>
                  /\ cards[c].opacity = "1"
                  /\ cards[c].animation = "slideInUp 0.6s ease forwards"
                  /\ ~cards[c].observed
                  /\ revealSteps[c] = 1

\* C18 witness: the viewport has moved to card 1, away and back; card 1 is
\* revealed and nothing is queued, while card 2 has never been reported
\* and is hidden.
C18_Witness ==
    /\ reported = {1}
    /\ scrollsLeft = 0
    /\ 1 \in inView
    /\ entryQueue = <<>>
    /\ cards[1].opacity = "1"
    /\ cards[2].opacity = "0"

(***************************************************************************)
(* Clicks on same-page anchors.                                            *)
(***************************************************************************)
\* The clicked anchor's target element is found by querySelector.
TargetFound ==
    QuerySelector(scrollEnv.ids, lastAnchorClick.href).t = "element"

\* C19 as stated: for every click on an anchor with both listeners
\* registered the default is cancelled, a smooth scroll is requested if and
\* only if the target exists, and the two listeners cancel the default in
\* the same clicks.
C19_DefaultAlwaysCancelled ==
    lastAnchorClick.ranTop /\ lastAnchorClick.ranInit =>
        /\ lastAnchorClick.prevented
        /\ lastAnchorClick.scrolls # <<>> <=> TargetFound
        /\ lastAnchorClick.top.prevented = lastAnchorClick.init.prevented

\* C19, amended: once initSmoothScroll has run, a click on an anchor has its
\* default cancelled exactly when the href is not the bare '#'; smooth
\* scrolls to the target, and to nothing else, are requested exactly when
\* querySelector finds the target, one by each listener registered; the
\* top-level listener cancels the default only when the target is found, so
\* the two listeners differ exactly for a missing target.
C19_DefaultCancelledUnlessBareHash ==
    lastAnchorClick.ranInit =>
        /\ lastAnchorClick.prevented <=> lastAnchorClick.href # <<"#">>
        /\ lastAnchorClick.scrolls # <<>> <=> TargetFound
        /\ \A i \in 1..Len(lastAnchorClick.scrolls) :
              /\ lastAnchorClick.scrolls[i].target =
                     Tail(lastAnchorClick.href)
              /\ lastAnchorClick.scrolls[i].behavior = "smooth"
        /\ TargetFound =>
              Len(lastAnchorClick.scrolls) =
                  (IF lastAnchorClick.ranTop THEN 2 ELSE 1)
        /\ lastAnchorClick.ranTop =>
              /\ lastAnchorClick.top.prevented <=> TargetFound
              /\ lastAnchorClick.top.prevented = lastAnchorClick.init.prevented
                     <=> (lastAnchorClick.href = <<"#">> \/ TargetFound)

\* C19 witness: with both listeners registered, a click on an anchor whose
\* target the page does not have: the default is cancelled by
\* initSmoothScroll's listener alone and nothing is scrolled.
C19_Witness ==
    /\ lastAnchorClick.ranTop
    /\ lastAnchorClick.ranInit
    /\ lastAnchorClick.href = <<"#", "b">>
    /\ lastAnchorClick.prevented
    /\ ~lastAnchorClick.top.prevented
    /\ lastAnchorClick.scrolls = <<>>

(***************************************************************************)
(* The chart.                                                              *)
(***************************************************************************)
\* The array the chart holds under the name ref.
ChartArray(ref) == data[ref]

\* The chart's labels and series are the current timestamp, temperature and
\* humidity histories.
ChartShowsHistories ==
    /\ chartSeries.labels # "none"
    /\ ChartArray(chartSeries.labels) = data.timestamps
    /\ chartSeries.temperature # "none"
    /\ ChartArray(chartSeries.temperature) = data.temperature
    /\ chartSeries.humidity # "none"
    /\ ChartArray(chartSeries.humidity) = data.humidity

\* A chart is constructed exactly on a page with the library and the
\* surface; without a chart nothing is ever redrawn.
ChartBuiltWhenPossible ==
    /\ phase = "ready" => (chart = "chart" <=> dom.chartLib /\ dom.chartEl)
    /\ phase = "loading" => chart = "null"
    /\ chart = "null" =>
          /\ redraws = 0
          /\ \A i \in 1..Len(lastCycle.calls) :
                lastCycle.calls[i].updates = <<>>

\* C20 as stated: a chart is constructed exactly on a page with the library
\* and the surface; with a chart, after every updateDashboard call the
\* chart shows the current histories and one redraw without animation was
\* issued for the call; without a chart nothing is ever redrawn.
C20_OneRedrawPerCall ==
    /\ ChartBuiltWhenPossible
    /\ chart = "chart" =>
          /\ ChartShowsHistories
          /\ \A i \in 1..Len(lastCycle.calls) :
                lastCycle.calls[i].updates = <<"none">>

\* C20, amended: as stated, but the one redraw is issued for every call of
\* updateDashboard with a body other than null; a call with the body null
\* raises at line 176 or 181 before any change and issues no redraw.
C20_OneRedrawPerCallPastItsArgument ==
    /\ ChartBuiltWhenPossible
    /\ chart = "chart" =>
          /\ ChartShowsHistories
          /\ \A i \in 1..Len(lastCycle.calls) :
                lastCycle.calls[i].updates =
                    (IF lastCycle.calls[i].reading = NullBody THEN <<>>
                     ELSE <<"none">>)

\* C20 witness: on a page with a chart a cycle has made two calls, the
\* second with a mock reading after the redraw of the first raised, and
\* the histories have been trimmed.
C20_Witness ==
    /\ chart = "chart"
    /\ Len(lastCycle.calls) = 2
    /\ lastCycle.calls[1].inChart
    /\ lastCycle.calls[1].updates = <<"none">>
    /\ Len(appended) > HistoryCap
    /\ ChartShowsHistories

(***************************************************************************)
(* The button and the panel together.                                      *)
(***************************************************************************)
\* C21: on a page that has the button and the panel, neither 'active' at
\* load, after any clicks on the button, on links and inside or outside
\* the navbar the button is 'active' exactly when the panel is.
C21_ButtonAndPanelAgree ==
    menuEnv.toggleEl /\ menuEnv.navEl => menu.button = menu.panel

\* C21 witness: the menu, closed at load, was opened by clicks on the
\* button and has been closed again by the last click, on a link.
C21_Witness ==
    /\ menuEnv.navEl
    /\ clicksLeft = 0
    /\ lastClick.target = "link"
    /\ lastClick.before = MenuClasses(TRUE, TRUE)
    /\ menu = MenuClasses(FALSE, FALSE)

====
